---- MODULE Spec2Model ----
(***************************************************************************)
(* vk-mem-rs: the Rust wrapper over the native Vulkan Memory Allocator.    *)
(*                                                                         *)
(* The wrapper (src/src/*.rs) marshals parameters and result codes; the    *)
(* allocator proper is the native library behind the ffi calls.  The       *)
(* wrapper's methods are the actions of this module.  The native library   *)
(* and the Vulkan device are modelled by the vma.../vk... operators, after *)
(* the contract the wrapper's documentation states for them.               *)
(***************************************************************************)
EXTENDS Integers, FiniteSets, Sequences, TLC

(* ------------------------------ bounds --------------------------------- *)

\* Allocation handles the native library hands out in one run.
MaxAllocs == 2

\* Device-memory objects (blocks and dedicated memories) alive at once.
MaxBlocks == 2

\* Largest byte size requested for a buffer.
MaxBufSize == 3

\* Cap on the nested map_memory calls on one allocation.
MaxMapCount == 2

(* --------------------------- the device -------------------------------- *)

\* Size of one device-memory block of a default pool.
BlockSize == 4

\* Alignment and size granularity vkGetBufferMemoryRequirements reports.
MemReqAlign == 2

NULL == 0

Handles == 1..MaxAllocs

MemIds == 1..MaxBlocks

BufSizes == 1..MaxBufSize

\* The address vkMapMemory returns for device memory m.
MapAddress(m) == 16 * m

\* VkPhysicalDeviceMemoryProperties of the device: memory type -> flags.
MemTypes == {0, 1}

MemTypeFlags(t) == IF t = 0 THEN {"DEVICE_LOCAL"}
                            ELSE {"HOST_VISIBLE", "HOST_COHERENT"}

(* ----------------------- flags and conversions ------------------------- *)

\* AllocationCreateFlags bit values.
DEDICATED_MEMORY == 1

NEVER_ALLOCATE == 2

MAPPED == 4

FlagNames == {"DEDICATED_MEMORY", "NEVER_ALLOCATE", "MAPPED"}

FlagBit(f) == CASE f = "DEDICATED_MEMORY" -> DEDICATED_MEMORY
                [] f = "NEVER_ALLOCATE" -> NEVER_ALLOCATE
                [] f = "MAPPED" -> MAPPED

RECURSIVE SumBits(_)
SumBits(S) == IF S = {} THEN 0
              ELSE LET f == CHOOSE x \in S : TRUE
                   IN  FlagBit(f) + SumBits(S \ {f})

\* AllocationCreateFlags::bits(): the u32 mask of a set of flags.
bits(flags) == SumBits(flags)

\* Whether bit `b` (a power of two) is set in the mask `mask`.
HasBit(mask, b) == (mask \div b) % 2 = 1

\* The conversion with the flags left out.
AllocationCreateInfoFlagsDropped(info) ==
    [flags          |-> 0,
     usage          |-> info.usage,
     requiredFlags  |-> info.required_flags,
     preferredFlags |-> info.preferred_flags,
     memoryTypeBits |-> info.memory_type_bits,
     pool           |-> NULL]

\* The conversion with the required flags left out.
AllocationCreateInfoRequiredDropped(info) ==
    [flags          |-> bits(info.flags),
     usage          |-> info.usage,
     requiredFlags  |-> {},
     preferredFlags |-> info.preferred_flags,
     memoryTypeBits |-> info.memory_type_bits,
     pool           |-> NULL]

\* From<&AllocationCreateInfo> for ffi::VmaAllocationCreateInfo: the pool
\* field is left null; the Alloc methods fill it in afterwards.
AllocationCreateInfoIntoFfi(info) ==
    [flags          |-> bits(info.flags),
     usage          |-> info.usage,
     requiredFlags  |-> info.required_flags,
     preferredFlags |-> info.preferred_flags,
     memoryTypeBits |-> info.memory_type_bits,
     pool           |-> NULL]

(* ------------------------------ state ---------------------------------- *)

VARIABLES
    internal,      \* Allocator.internal: "valid" or "null"
    dropped,       \* the Allocator value has been dropped
    destroyCalls,  \* native vmaDestroyAllocator calls made so far
    faulted,       \* "no", or the outcome of a native call outside its contract
    allocs,        \* native allocation records, by handle
    blocks,        \* device-memory objects, by handle
    buffers,       \* live VkBuffer handles
    pools,         \* custom pools: handle -> record
    owned,         \* caller: allocations received and not yet given back
    made,          \* caller: the request each handle was created with, and on what
    maps,          \* caller: successful map_memory minus unmap_memory calls
    ptrs,          \* caller: pointers map_memory returned in the open nest
    last,          \* the most recent wrapper call and what it returned
    dctx,          \* the DefragmentationContext and its native context
    vblock,        \* the VirtualBlock and its native block
    vallocs,       \* native virtual allocation records, by handle
    vowned,        \* caller: virtual allocations received and not yet freed
    vmade,         \* caller: request, offset and user data of each handle
    vlast,         \* the most recent VirtualBlock call and what it returned
    vfaulted,      \* "no", or the outcome of a native call outside its contract
    mutex,         \* the thread holding the allocator's mutex, if any
    threads,       \* each thread: its position in a call, and what it holds
    arc            \* the caller's Arc<Allocator>: "held" or "released"

allocVars == <<internal, dropped, destroyCalls, faulted, allocs, blocks,
               buffers, pools, owned, made, maps, ptrs, last>>

virtVars == <<vblock, vallocs, vowned, vmade, vlast, vfaulted>>

shareVars == <<mutex, threads, arc>>

NoAlloc == [st |-> "unused", mem |-> NULL, offset |-> 0, size |-> 0,
            mapCount |-> 0, persistent |-> FALSE]

NoBlock == [exists |-> FALSE, memType |-> 0, pool |-> NULL,
            dedicated |-> FALSE, size |-> 0, mapCount |-> 0, base |-> NULL,
            deviceMaps |-> 0]

NoPool == [exists |-> FALSE, memType |-> 0, linear |-> FALSE,
           minBlockCount |-> 0, maxBlockCount |-> 0]

NoPoolInfo == [memory_type_index |-> 0, flags |-> {}, min_block_count |-> 0,
               max_block_count |-> 0]

NoRequest == [size |-> 0, flags |-> {}, via |-> NULL]

NoInfo == [memoryType |-> 0, deviceMemory |-> NULL, offset |-> 0,
           size |-> 0, pMappedData |-> NULL]

NoStats == [blockCount |-> 0, allocationCount |-> 0, allocationBytes |-> 0]

NoFind == [memory_type_bits |-> 0, usage |-> "Unknown",
           required_flags |-> {}, preferred_flags |-> {},
           info_memory_type_bits |-> 0, index |-> 0]

NoCall == [op |-> "none", result |-> "none", h |-> NULL, ptr |-> NULL,
           info |-> NoInfo, stats |-> NoStats, nullHandle |-> FALSE,
           mapsBefore |-> 0, poolInfo |-> NoPoolInfo, count |-> 0,
           find |-> NoFind, memoryTypes |-> {}, corrupt |-> FALSE]

\* The record of a wrapper call: what was called, on what, what came back,
\* whether Allocator.internal was null when the call was made, and how
\* many map_memory calls on the allocation were outstanding then.
Call(op, result, h, ptr) ==
    [op |-> op, result |-> result, h |-> h, ptr |-> ptr,
     info |-> NoInfo, stats |-> NoStats, nullHandle |-> (internal = "null"),
     mapsBefore |-> IF h = NULL THEN 0 ELSE maps[h],
     poolInfo |-> NoPoolInfo, count |-> 0, find |-> NoFind,
     memoryTypes |-> {}, corrupt |-> FALSE]

\* A native call outside the library's contract: an assertion aborts the
\* process (debug build), or the call goes on with no visible effect or
\* with its bookkeeping damaged (release build, NDEBUG).
UndefinedOutcomes == {"abort", "no_effect", "corrupt"}

Defined == faulted = "no"

(* ---------------------- native library: layout ------------------------- *)

Live(A) == {h \in Handles : A[h].st = "live"}

LiveIn(A, m) == {h \in Live(A) : A[h].mem = m}

Range(a) == a.offset .. (a.offset + a.size - 1)

\* The bytes [o, o + size) of device memory m are free in layout A.
IsFree(A, m, o, size) ==
    \A h \in LiveIn(A, m) : Range(A[h]) \cap (o .. (o + size - 1)) = {}

RoundUp(n, a) == ((n + a - 1) \div a) * a

\* The mask with the bit of every memory type of the device set.
AllTypeBits == 2 ^ Cardinality(MemTypes) - 1

\* vkGetBufferMemoryRequirements: the size and alignment of a buffer, and
\* the memory types it may be bound to (all of them).
vkGetBufferMemoryRequirements(size) ==
    [size |-> RoundUp(size, MemReqAlign), alignment |-> MemReqAlign,
     memoryTypeBits |-> AllTypeBits]

\* Places for an allocation inside the existing blocks of (memType, pool).
PlacesInBlocks(A, B, t, pool, size, align) ==
    {pl \in MemIds \X (0 .. (BlockSize - 1)) :
        /\ B[pl[1]].exists /\ ~B[pl[1]].dedicated
        /\ B[pl[1]].memType = t /\ B[pl[1]].pool = pool
        /\ pl[2] % align = 0
        /\ pl[2] + size <= B[pl[1]].size
        /\ IsFree(A, pl[1], pl[2], size)}

FreeMemIds(B) == {m \in MemIds : ~B[m].exists}

FreeHandles(A) == {h \in Handles : A[h].st = "unused"}

(* ------------------ native library: memory types ----------------------- *)

\* What a MemoryUsage value adds to the required and preferred flags.
UsageRequired(u) == IF u = "CpuOnly" THEN {"HOST_VISIBLE", "HOST_COHERENT"}
                                     ELSE {}

UsagePreferred(u) == IF u \in {"GpuOnly", "Auto"} THEN {"DEVICE_LOCAL"}
                                                  ELSE {}

\* Bit t of memoryTypeBits admits type t.
TypeAdmitted(memoryTypeBits, t) == HasBit(memoryTypeBits, 2 ^ t)

\* vmaFindMemoryTypeIndex: the types admitted by memoryTypeBits, and by
\* the request's own memoryTypeBits unless that is 0, that carry every
\* required flag and miss the fewest preferred flags (empty: none
\* qualifies).  The usage adds to both sets of flags.
vmaFindMemoryTypeIndex(memoryTypeBits, ffi) ==
    LET required  == ffi.requiredFlags \cup UsageRequired(ffi.usage)
        preferred == ffi.preferredFlags \cup UsagePreferred(ffi.usage)
        qualifies == {t \in MemTypes :
                         /\ TypeAdmitted(memoryTypeBits, t)
                         /\ \/ ffi.memoryTypeBits = 0
                            \/ TypeAdmitted(ffi.memoryTypeBits, t)
                         /\ required \subseteq MemTypeFlags(t)}
        cost(t)   == Cardinality(preferred \ MemTypeFlags(t))
    IN  {t \in qualifies : \A u \in qualifies : cost(t) <= cost(u)}

(* ------------------ native library: allocation ------------------------- *)

Min(S) == CHOOSE x \in S : \A y \in S : x <= y

\* The device is asked to map the object on every reference taken.
BlockMapEachTime(B, m) ==
    [B EXCEPT ![m].mapCount = @ + 1,
              ![m].base = MapAddress(m),
              ![m].deviceMaps = @ + 1]

\* One more reference on the mapping of device memory m; the device maps
\* the object (vkMapMemory) only when the count leaves 0.  deviceMaps:
\* the vkMapMemory calls the device has seen for the object, less the
\* vkUnmapMemory calls.
BlockMap(B, m) ==
    [B EXCEPT ![m].mapCount = @ + 1,
              ![m].base = IF B[m].mapCount = 0 THEN MapAddress(m) ELSE @,
              ![m].deviceMaps = IF B[m].mapCount = 0 THEN @ + 1 ELSE @]

\* One reference less; the device unmaps the object when the count
\* returns to 0.
BlockUnmap(B, m) ==
    [B EXCEPT ![m].mapCount = @ - 1,
              ![m].base = IF B[m].mapCount = 1 THEN NULL ELSE @,
              ![m].deviceMaps = IF B[m].mapCount = 1 THEN @ - 1 ELSE @]

\* The blocks a pool holds (of the default pools when `pool` is null).
BlocksOf(B, pool) ==
    {m \in MemIds : B[m].exists /\ ~B[m].dedicated /\ B[m].pool = pool}

\* A pool that may always take one more block.
MayGrowAlways(B, P, pool) == TRUE

\* Whether `pool` may take one more block: a custom pool with a nonzero
\* maxBlockCount holds at most that many.
MayGrow(B, P, pool) ==
    IF pool = NULL THEN TRUE
    ELSE \/ P[pool].maxBlockCount = 0
         \/ Cardinality(BlocksOf(B, pool)) < P[pool].maxBlockCount

\* The outcomes of allocating `size` bytes in memory type t of `pool`.
\* A dedicated allocation gets a device memory of its own; any other one
\* goes into a free range of an existing block, or into a new block when
\* no block has room and the pool may grow.  No outcome: out of device
\* memory.
Allocate(A, B, t, pool, size, align, flags, mayGrow) ==
    LET h          == Min(FreeHandles(A))
        persistent == HasBit(flags, MAPPED) /\ "HOST_VISIBLE" \in MemTypeFlags(t)
        Place(B1, m, o) ==
            {[allocs |-> [A EXCEPT ![h] =
                            [st |-> "live", mem |-> m, offset |-> o,
                             size |-> size, mapCount |-> 0,
                             persistent |-> persistent]],
              blocks |-> B2, h |-> h] :
                B2 \in {IF persistent THEN BlockMap(B1, m) ELSE B1}}
        NewBlock(m, dedicated, bsize) ==
            [B EXCEPT ![m] = [exists |-> TRUE, memType |-> t, pool |-> pool,
                              dedicated |-> dedicated, size |-> bsize,
                              mapCount |-> 0, base |-> NULL,
                              deviceMaps |-> 0]]
        places == PlacesInBlocks(A, B, t, pool, size, align)
    IN  IF HasBit(flags, DEDICATED_MEMORY)
        THEN IF FreeMemIds(B) = {} THEN {}
             ELSE LET m == Min(FreeMemIds(B))
                  IN  Place(NewBlock(m, TRUE, size), m, 0)
        ELSE IF places # {}
        THEN UNION {Place(B, pl[1], pl[2]) : pl \in places}
        ELSE IF \/ FreeMemIds(B) = {}
                \/ size > BlockSize
                \/ HasBit(flags, NEVER_ALLOCATE)
                \/ ~mayGrow
        THEN {}
        ELSE LET m == Min(FreeMemIds(B))
             IN  Place(NewBlock(m, FALSE, BlockSize), m, 0)

\* vmaFreeMemory of a live allocation with no map_memory outstanding.  A
\* dedicated memory is released with its allocation; a block that became
\* empty is released when its pool already keeps another empty block and
\* holds more blocks than its minBlockCount.
vmaFreeMemory(A, B, P, h) ==
    LET m  == A[h].mem
        B1 == IF A[h].persistent THEN BlockUnmap(B, m) ELSE B
        A1 == [A EXCEPT ![h] = [NoAlloc EXCEPT !.st = "freed"]]
        otherEmpty == \E n \in MemIds \ {m} :
                          /\ B1[n].exists /\ ~B1[n].dedicated
                          /\ B1[n].memType = B1[m].memType
                          /\ B1[n].pool = B1[m].pool
                          /\ LiveIn(A1, n) = {}
        canDelete == \/ B1[m].pool = NULL
                     \/ Cardinality(BlocksOf(B1, B1[m].pool))
                            > P[B1[m].pool].minBlockCount
        release == \/ B1[m].dedicated
                   \/ (LiveIn(A1, m) = {} /\ otherEmpty /\ canDelete)
    IN  [allocs |-> A1,
         blocks |-> IF release THEN [B1 EXCEPT ![m] = NoBlock] ELSE B1]

\* An allocation made inside a failing native call left as it is.
UndoAllocationLeftOut(A, B, P, h) == [allocs |-> A, blocks |-> B]

\* An allocation made inside a native call that then fails is freed again;
\* its handle never reached the caller.
UndoAllocation(A, B, P, h) ==
    LET r == vmaFreeMemory(A, B, P, h)
    IN  [allocs |-> [r.allocs EXCEPT ![h] = NoAlloc], blocks |-> r.blocks]

\* vmaCreateBuffer: create the buffer, allocate memory for its
\* requirements, bind them.  `device` names the Vulkan call the device
\* refuses, if any: the buffer, and the allocation if it was made, are
\* then given up again.  The set of possible outcomes.
vmaCreateBuffer(A, B, P, size, ffi, device) ==
    LET req   == vkGetBufferMemoryRequirements(size)
        types == IF ffi.pool # NULL THEN {P[ffi.pool].memType}
                 ELSE vmaFindMemoryTypeIndex(req.memoryTypeBits, ffi)
        done  == UNION {Allocate(A, B, t, ffi.pool, req.size, req.alignment,
                                 ffi.flags, MayGrow(B, P, ffi.pool)) :
                            t \in types}
        created == IF types = {}
                   THEN {[result |-> "ERROR_FEATURE_NOT_PRESENT",
                          allocs |-> A, blocks |-> B, h |-> NULL]}
                   ELSE IF done = {}
                   THEN {[result |-> "ERROR_OUT_OF_DEVICE_MEMORY",
                          allocs |-> A, blocks |-> B, h |-> NULL]}
                   ELSE {[result |-> "SUCCESS", allocs |-> r.allocs,
                          blocks |-> r.blocks, h |-> r.h] : r \in done}
        vkCreateBufferFails ==
            {[result |-> "ERROR_OUT_OF_HOST_MEMORY",
              allocs |-> A, blocks |-> B, h |-> NULL]}
        vkBindBufferMemoryFails ==
            {[result |-> "ERROR_OUT_OF_HOST_MEMORY",
              allocs |-> UndoAllocation(r.allocs, r.blocks, P, r.h).allocs,
              blocks |-> UndoAllocation(r.allocs, r.blocks, P, r.h).blocks,
              h |-> NULL] : r \in done}
    IN  CASE device = "vkCreateBuffer" -> vkCreateBufferFails
          [] device = "vkBindBufferMemory" /\ done # {}
                -> vkBindBufferMemoryFails
          [] OTHER -> created

\* pMappedData of an allocation: null unless it is mapped.
MappedData(A, B, h) ==
    IF A[h].mapCount > 0 \/ A[h].persistent
    THEN B[A[h].mem].base + A[h].offset
    ELSE NULL

\* vmaGetAllocationInfo.
vmaGetAllocationInfo(A, B, h) ==
    [memoryType   |-> B[A[h].mem].memType,
     deviceMemory |-> A[h].mem,
     offset       |-> A[h].offset,
     size         |-> A[h].size,
     pMappedData  |-> MappedData(A, B, h)]

\* vmaCalculateStats / vmaCalculateStatistics, the total.
RECURSIVE SumSizes(_, _)
SumSizes(A, S) == IF S = {} THEN 0
                  ELSE LET h == CHOOSE x \in S : TRUE
                       IN  A[h].size + SumSizes(A, S \ {h})

vmaCalculateStats(A, B) ==
    [blockCount      |-> Cardinality({m \in MemIds : B[m].exists}),
     allocationCount |-> Cardinality(Live(A)),
     allocationBytes |-> SumSizes(A, Live(A))]

\* vmaMapMemory: fails outside HOST_VISIBLE memory; otherwise one more
\* reference on the allocation and on its device memory, and the pointer
\* to the allocation's first byte.
vmaMapMemory(A, B, h) ==
    LET m == A[h].mem
    IN  IF "HOST_VISIBLE" \notin MemTypeFlags(B[m].memType)
        THEN {[result |-> "ERROR_MEMORY_MAP_FAILED", allocs |-> A,
               blocks |-> B, ptr |-> NULL]}
        ELSE {[result |-> "SUCCESS",
               allocs |-> [A EXCEPT ![h].mapCount = @ + 1],
               blocks |-> B1, ptr |-> B1[m].base + A[h].offset] :
                  B1 \in {BlockMap(B, m)}}

\* vmaUnmapMemory of an allocation with a map_memory outstanding.
vmaUnmapMemory(A, B, h) ==
    [allocs |-> [A EXCEPT ![h].mapCount = @ - 1],
     blocks |-> BlockUnmap(B, A[h].mem)]

(* ------------------------- the caller's inputs ------------------------- *)

MaxPools == 1

PoolIds == 1..MaxPools

AllocInfo(usage, flags, required, preferred) ==
    [usage |-> usage, flags |-> flags, required_flags |-> required,
     preferred_flags |-> preferred, memory_type_bits |-> 0]

\* The requests of the tests, and their neighbours.
AllocInfos ==
    {AllocInfo("Auto", {}, {}, {}),
     AllocInfo("GpuOnly", {"MAPPED"}, {}, {}),
     AllocInfo("Unknown", {}, {"HOST_VISIBLE"}, {}),
     AllocInfo("Unknown", {"MAPPED"}, {"HOST_VISIBLE"},
               {"HOST_COHERENT", "HOST_CACHED"}),
     AllocInfo("Unknown", {"DEDICATED_MEMORY"}, {"HOST_VISIBLE"}, {}),
     AllocInfo("Unknown", {}, {"HOST_CACHED"}, {})}

\* Handles the caller can pass: Allocation is Copy, a freed one stays in hand.
Known == {h \in Handles : allocs[h].st # "unused"}

(* ------------------------------ actions -------------------------------- *)

\* A call on the allocator: the value is alive, and the caller makes no
\* other call while a defragmentation is going on.
Usable == ~dropped /\ Defined /\ dctx.ctx # "open"

\* The call reaches the native library outside its contract.
Undefined(op, h) ==
    /\ faulted' \in UndefinedOutcomes
    /\ last' = Call(op, "undefined", h, NULL)
    /\ UNCHANGED <<shareVars, virtVars, dctx, internal, dropped, destroyCalls, allocs, blocks, buffers,
                   pools, owned, made, maps, ptrs>>

\* The two implementors of Alloc: the Allocator, and an AllocatorPool.
TheAllocator == [kind |-> "Allocator", pool |-> NULL]

ThePool(p) == [kind |-> "AllocatorPool", pool |-> p]

\* Alloc::pool() answering null for a pool as well.
pool_always_null(self) == NULL

\* Alloc::pool(): null for the Allocator, the pool's handle for a pool.
pool(self) == IF self.kind = "Allocator" THEN NULL ELSE self.pool

\* create_buffer handing on a smaller size than the caller's.
BufferInfoShrunk(buffer_info) == buffer_info - 1

\* The VkBufferCreateInfo create_buffer hands on (its size): the caller's.
BufferInfoForwarded(buffer_info) == buffer_info

\* What the device does with the Vulkan calls made for one buffer: it
\* carries them all out, or refuses the one named.
DeviceOutcomes == {"ok", "vkCreateBuffer", "vkBindBufferMemory"}

\* Alloc::create_buffer, on the allocator or on a custom pool.
create_buffer(self, size, create_info, device) ==
    /\ Usable
    /\ FreeHandles(allocs) # {}
    /\ IF self.kind = "Allocator" THEN TRUE ELSE pools[self.pool].exists
    /\ LET ffi == [AllocationCreateInfoIntoFfi(create_info)
                      EXCEPT !.pool = pool(self)]
       IN  IF internal = "null"
           THEN Undefined("create_buffer", NULL)
           ELSE \E r \in vmaCreateBuffer(allocs, blocks, pools,
                                         BufferInfoForwarded(size), ffi,
                                         device) :
                   /\ allocs' = r.allocs
                   /\ blocks' = r.blocks
                   /\ last' = Call("create_buffer", r.result, r.h, NULL)
                   /\ IF r.result = "SUCCESS"
                      THEN /\ buffers' = buffers \cup {r.h}
                           /\ owned' = owned \cup {r.h}
                           /\ made' = [made EXCEPT ![r.h] =
                                          [size  |-> size,
                                           flags |-> create_info.flags,
                                           via   |-> self.pool]]
                      ELSE UNCHANGED <<buffers, owned, made>>
                   /\ UNCHANGED <<shareVars, virtVars, dctx, internal, dropped, destroyCalls, faulted,
                                  pools, maps, ptrs>>

CreateBuffer ==
    \E self \in {TheAllocator} \cup {ThePool(p) : p \in PoolIds},
       size \in BufSizes,
       create_info \in AllocInfos :
        create_buffer(self, size, create_info, "ok")

\* Buffers created on a device that may refuse a call.
CreateBufferOnAnyDevice ==
    \E self \in {TheAllocator} \cup {ThePool(p) : p \in PoolIds},
       size \in BufSizes,
       create_info \in AllocInfos,
       device \in DeviceOutcomes :
        create_buffer(self, size, create_info, device)

\* destroy_buffer handing on the buffer without its allocation.
DestroyBufferArgsNoAllocation(buffer, allocation) ==
    [buffer |-> buffer, allocation |-> NULL]

\* What destroy_buffer hands to vmaDestroyBuffer.
DestroyBufferArgs(buffer, allocation) ==
    [buffer |-> buffer, allocation |-> allocation]

\* Allocator::destroy_buffer.
destroy_buffer(buffer, allocation) ==
    /\ Usable
    /\ LET args == DestroyBufferArgs(buffer, allocation)
           h    == args.allocation
       IN  IF \/ internal = "null"
              \/ (h # NULL /\ (allocs[h].st = "freed" \/ allocs[h].mapCount > 0))
           THEN Undefined("destroy_buffer", allocation)
           ELSE LET r == IF h = NULL THEN [allocs |-> allocs, blocks |-> blocks]
                         ELSE vmaFreeMemory(allocs, blocks, pools, h)
                IN  /\ allocs' = r.allocs
                    /\ blocks' = r.blocks
                    /\ buffers' = buffers \ {args.buffer}
                    /\ owned' = owned \ {allocation}
                    /\ last' = Call("destroy_buffer", "unit", allocation, NULL)
                    /\ UNCHANGED <<shareVars, virtVars, dctx, internal, dropped, destroyCalls, faulted,
                                   pools, made, maps, ptrs>>

DestroyBuffer == \E h \in Known : destroy_buffer(h, h)

\* destroy_buffer with null for the buffer, for the allocation or for both.
DestroyBufferOrNull ==
    \E buffer \in Known \cup {NULL}, allocation \in Known \cup {NULL} :
        /\ buffer # NULL /\ allocation # NULL => buffer = allocation
        /\ destroy_buffer(buffer, allocation)

\* Allocator::map_memory.
map_memory(allocation) ==
    /\ Usable
    /\ maps[allocation] < MaxMapCount
    /\ IF internal = "null" \/ allocs[allocation].st = "freed"
       THEN Undefined("map_memory", allocation)
       ELSE \E r \in vmaMapMemory(allocs, blocks, allocation) :
               /\ allocs' = r.allocs
               /\ blocks' = r.blocks
               /\ last' = Call("map_memory", r.result, allocation, r.ptr)
               /\ IF r.result = "SUCCESS"
                  THEN /\ maps' = [maps EXCEPT ![allocation] = @ + 1]
                       /\ ptrs' = [ptrs EXCEPT ![allocation] = @ \cup {r.ptr}]
                  ELSE UNCHANGED <<maps, ptrs>>
               /\ UNCHANGED <<shareVars, virtVars, dctx, internal, dropped, destroyCalls, faulted,
                              buffers, pools, owned, made>>

MapMemory == \E h \in Known : map_memory(h)

\* unmap_memory returning without the native call.
unmap_memory_unforwarded(allocation) ==
    /\ Usable
    /\ maps[allocation] > 0
    /\ last' = Call("unmap_memory", "unit", allocation, NULL)
    /\ maps' = [maps EXCEPT ![allocation] = @ - 1]
    /\ ptrs' = [ptrs EXCEPT ![allocation] =
                   IF maps[allocation] = 1 THEN {} ELSE @]
    /\ UNCHANGED <<shareVars, virtVars, dctx, internal, dropped, destroyCalls, faulted, allocs,
                   blocks, buffers, pools, owned, made>>

\* Allocator::unmap_memory: no check of its own, no result.
unmap_memory(allocation) ==
    /\ Usable
    /\ IF \/ internal = "null"
          \/ allocs[allocation].st = "freed"
          \/ allocs[allocation].mapCount = 0
       THEN Undefined("unmap_memory", allocation)
       ELSE LET r == vmaUnmapMemory(allocs, blocks, allocation)
            IN  /\ allocs' = r.allocs
                /\ blocks' = r.blocks
                /\ last' = Call("unmap_memory", "unit", allocation, NULL)
                /\ maps' = [maps EXCEPT ![allocation] = @ - 1]
                /\ ptrs' = [ptrs EXCEPT ![allocation] =
                               IF maps[allocation] = 1 THEN {} ELSE @]
                /\ UNCHANGED <<shareVars, virtVars, dctx, internal, dropped, destroyCalls, faulted,
                               buffers, pools, owned, made>>

UnmapMemory == \E h \in Known : unmap_memory(h)

\* Allocator::get_allocation_info.
get_allocation_info(allocation) ==
    /\ Usable
    /\ IF internal = "null" \/ allocs[allocation].st = "freed"
       THEN Undefined("get_allocation_info", allocation)
       ELSE /\ last' = [Call("get_allocation_info", "SUCCESS", allocation, NULL)
                           EXCEPT !.info = vmaGetAllocationInfo(allocs, blocks,
                                                                allocation)]
            /\ UNCHANGED <<shareVars, virtVars, dctx, internal, dropped, destroyCalls, faulted, allocs,
                           blocks, buffers, pools, owned, made, maps, ptrs>>

GetAllocationInfo == \E h \in Known : get_allocation_info(h)

\* Allocator::calculate_stats.
calculate_stats ==
    /\ Usable
    /\ IF internal = "null"
       THEN Undefined("calculate_stats", NULL)
       ELSE /\ last' = [Call("calculate_stats", "SUCCESS", NULL, NULL)
                           EXCEPT !.stats = vmaCalculateStats(allocs, blocks)]
            /\ UNCHANGED <<shareVars, virtVars, dctx, internal, dropped, destroyCalls, faulted, allocs,
                           blocks, buffers, pools, owned, made, maps, ptrs>>

\* Largest max_block_count the caller asks for.
MaxBlockCount == 2

PoolInfo(memory_type_index, flags, min_block_count, max_block_count) ==
    [memory_type_index |-> memory_type_index, flags |-> flags,
     min_block_count |-> min_block_count,
     max_block_count |-> max_block_count]

\* The pool descriptions tried: either algorithm, with and without a
\* preallocated block, with no limit (0) or a limit on the blocks.
PoolCreateInfos ==
    {ci \in [memory_type_index : MemTypes,
             flags : {{}, {"LINEAR_ALGORITHM"}},
             min_block_count : 0..MaxBlockCount,
             max_block_count : 0..MaxBlockCount] :
        ci.max_block_count = 0 \/ ci.min_block_count <= ci.max_block_count}

\* The ffi::VmaPoolCreateInfo create_pool hands to the native library.
PoolCreateInfoInner(create_info) ==
    [memoryTypeIndex |-> create_info.memory_type_index,
     flags           |-> create_info.flags,
     minBlockCount   |-> create_info.min_block_count,
     maxBlockCount   |-> create_info.max_block_count]

\* What LINEAR_ALGORITHM asks of the caller: max_block_count is 1, or 0.
PoolInfoInContract(ffi) ==
    "LINEAR_ALGORITHM" \in ffi.flags => ffi.maxBlockCount \in {0, 1}

RECURSIVE Lowest(_, _)
\* The n smallest members of S.
Lowest(S, n) == IF n = 0 \/ S = {} THEN {}
                ELSE {Min(S)} \cup Lowest(S \ {Min(S)}, n - 1)

\* vmaCreatePool, for a description within the contract: the pool is
\* created with minBlockCount blocks allocated; out of device memory
\* when the device cannot supply them.
vmaCreatePool(B, P, ffi) ==
    LET p   == Min({q \in PoolIds : ~P[q].exists})
        new == Lowest(FreeMemIds(B), ffi.minBlockCount)
    IN  IF Cardinality(new) < ffi.minBlockCount
        THEN [result |-> "ERROR_OUT_OF_DEVICE_MEMORY", pools |-> P,
              blocks |-> B, p |-> NULL]
        ELSE [result |-> "SUCCESS",
              pools  |-> [P EXCEPT ![p] =
                            [exists |-> TRUE,
                             memType |-> ffi.memoryTypeIndex,
                             linear |-> "LINEAR_ALGORITHM" \in ffi.flags,
                             minBlockCount |-> ffi.minBlockCount,
                             maxBlockCount |-> ffi.maxBlockCount]],
              blocks |-> [m \in MemIds |->
                            IF m \in new
                            THEN [exists |-> TRUE,
                                  memType |-> ffi.memoryTypeIndex,
                                  pool |-> p, dedicated |-> FALSE,
                                  size |-> BlockSize, mapCount |-> 0,
                                  base |-> NULL, deviceMaps |-> 0]
                            ELSE B[m]],
              p |-> p]

\* Allocator::create_pool: the description goes to the native library as
\* it is; a description outside the contract is not turned away here.
create_pool(create_info) ==
    /\ Usable
    /\ \E p \in PoolIds : ~pools[p].exists
    /\ LET ffi == PoolCreateInfoInner(create_info)
       IN  IF internal = "null" \/ ~PoolInfoInContract(ffi)
           THEN /\ faulted' \in UndefinedOutcomes
                /\ last' = [Call("create_pool", "undefined", NULL, NULL)
                               EXCEPT !.poolInfo = create_info]
                /\ UNCHANGED <<shareVars, virtVars, dctx, internal, dropped,
                               destroyCalls, allocs, blocks, buffers, pools,
                               owned, made, maps, ptrs>>
           ELSE LET r == vmaCreatePool(blocks, pools, ffi)
                IN  /\ pools' = r.pools
                    /\ blocks' = r.blocks
                    /\ last' = [Call("create_pool", r.result, r.p, NULL)
                                   EXCEPT !.poolInfo = create_info]
                    /\ UNCHANGED <<shareVars, virtVars, dctx, internal, dropped,
                                   destroyCalls, faulted, allocs, buffers,
                                   owned, made, maps, ptrs>>

\* A pool of the default algorithm with no block limits.
CreatePool == \E t \in MemTypes : create_pool(PoolInfo(t, {}, 0, 0))

\* A pool of any description.
CreatePoolOfAny == \E create_info \in PoolCreateInfos : create_pool(create_info)

\* Drop for AllocatorPool: vmaDestroyPool, which requires every allocation
\* of the pool to have been freed, releases the pool's blocks.
drop_pool(p) ==
    /\ Usable
    /\ pools[p].exists
    /\ IF \/ internal = "null"
          \/ \E h \in Live(allocs) : blocks[allocs[h].mem].pool = p
       THEN Undefined("drop_pool", NULL)
       ELSE /\ pools' = [pools EXCEPT ![p] = NoPool]
            /\ blocks' = [m \in MemIds |->
                             IF blocks[m].exists /\ blocks[m].pool = p
                             THEN NoBlock ELSE blocks[m]]
            /\ last' = Call("drop_pool", "unit", p, NULL)
            /\ UNCHANGED <<shareVars, virtVars, dctx, internal, dropped, destroyCalls,
                           faulted, allocs, buffers, owned, made, maps, ptrs>>

DropPool == \E p \in PoolIds : drop_pool(p)

(* ---------------------- allocation in batches -------------------------- *)

\* Largest allocation_count of one allocate_memory_pages call.
MaxPageCount == 2

\* The vk::MemoryRequirements the caller passes: those of a buffer, with
\* every memory type admitted.
MemoryRequirements ==
    {[size |-> vkGetBufferMemoryRequirements(z).size,
      alignment |-> vkGetBufferMemoryRequirements(z).alignment,
      memory_type_bits |-> vkGetBufferMemoryRequirements(z).memoryTypeBits] :
        z \in BufSizes}

RECURSIVE AllocatePages(_, _, _, _, _, _, _)
\* n allocations of the same kind made one after another in memory type
\* t: the layouts this can end in, with the handles made so far, and
\* whether all n could be made.
AllocatePages(A, B, P, t, req, ffi, n) ==
    IF n = 0
    THEN {[ok |-> TRUE, allocs |-> A, blocks |-> B, hs |-> <<>>]}
    ELSE LET first == Allocate(A, B, t, ffi.pool, req.size, req.alignment,
                               ffi.flags, MayGrow(B, P, ffi.pool))
         IN  IF first = {}
             THEN {[ok |-> FALSE, allocs |-> A, blocks |-> B, hs |-> <<>>]}
             ELSE UNION {{[ok |-> r.ok, allocs |-> r.allocs,
                           blocks |-> r.blocks, hs |-> <<f.h>> \o r.hs] :
                             r \in AllocatePages(f.allocs, f.blocks, P, t,
                                                 req, ffi, n - 1)} :
                         f \in first}

\* A failed batch with the allocations already made left in place.
FreePagesLeftOut(A, B, P, hs) == [allocs |-> A, blocks |-> B]

RECURSIVE FreePages(_, _, _, _)
\* The allocations of a failed batch are freed, the last one first; their
\* handles never reached the caller.
FreePages(A, B, P, hs) ==
    IF hs = <<>> THEN [allocs |-> A, blocks |-> B]
    ELSE LET h == hs[Len(hs)]
             r == UndoAllocation(A, B, P, h)
         IN  FreePages(r.allocs, r.blocks, P, SubSeq(hs, 1, Len(hs) - 1))

\* vmaAllocateMemoryPages: `count` allocations with the same parameters,
\* all of them or none.  The set of possible outcomes.
vmaAllocateMemoryPages(A, B, P, req, ffi, count) ==
    LET types == IF ffi.pool # NULL THEN {P[ffi.pool].memType}
                 ELSE vmaFindMemoryTypeIndex(req.memory_type_bits, ffi)
        tried == UNION {AllocatePages(A, B, P, t, req, ffi, count) :
                            t \in types}
        made_ == {r \in tried : r.ok}
    IN  IF types = {}
        THEN {[result |-> "ERROR_FEATURE_NOT_PRESENT",
               allocs |-> A, blocks |-> B, hs |-> <<>>]}
        ELSE IF made_ # {}
        THEN {[result |-> "SUCCESS", allocs |-> r.allocs,
               blocks |-> r.blocks, hs |-> r.hs] : r \in made_}
        ELSE {[result |-> "ERROR_OUT_OF_DEVICE_MEMORY",
               allocs |-> FreePages(r.allocs, r.blocks, P, r.hs).allocs,
               blocks |-> FreePages(r.allocs, r.blocks, P, r.hs).blocks,
               hs |-> <<>>] : r \in tried}

\* The handles of a vector of allocations.
Elements(hs) == {hs[i] : i \in 1..Len(hs)}

\* Alloc::allocate_memory_pages, on the allocator or on a custom pool.
allocate_memory_pages(self, memory_requirements, create_info, allocation_count) ==
    /\ Usable
    /\ allocation_count <= Cardinality(FreeHandles(allocs))
    /\ IF self.kind = "Allocator" THEN TRUE ELSE pools[self.pool].exists
    /\ LET ffi == [AllocationCreateInfoIntoFfi(create_info)
                      EXCEPT !.pool = pool(self)]
       IN  IF internal = "null"
           THEN Undefined("allocate_memory_pages", NULL)
           ELSE \E r \in vmaAllocateMemoryPages(allocs, blocks, pools,
                                                memory_requirements, ffi,
                                                allocation_count) :
                   /\ allocs' = r.allocs
                   /\ blocks' = r.blocks
                   /\ last' = [Call("allocate_memory_pages", r.result, NULL,
                                    NULL) EXCEPT !.count = allocation_count]
                   /\ owned' = owned \cup Elements(r.hs)
                   /\ made' = [h \in Handles |->
                                  IF h \in Elements(r.hs)
                                  THEN [size  |-> memory_requirements.size,
                                        flags |-> create_info.flags,
                                        via   |-> self.pool]
                                  ELSE made[h]]
                   /\ UNCHANGED <<shareVars, virtVars, dctx, internal, dropped,
                                  destroyCalls, faulted, buffers, pools, maps,
                                  ptrs>>

\* Batches made through the allocator and through pools of the default
\* algorithm.
AllocateMemoryPages ==
    \E self \in {TheAllocator} \cup {ThePool(p) : p \in PoolIds},
       memory_requirements \in MemoryRequirements,
       create_info \in AllocInfos,
       allocation_count \in 1..MaxPageCount :
        /\ self.kind = "AllocatorPool" => ~pools[self.pool].linear
        /\ allocate_memory_pages(self, memory_requirements, create_info,
                                 allocation_count)

\* Allocator::free_memory.
free_memory(allocation) ==
    /\ Usable
    /\ IF \/ internal = "null"
          \/ allocs[allocation].st = "freed"
          \/ allocs[allocation].mapCount > 0
       THEN Undefined("free_memory", allocation)
       ELSE LET r == vmaFreeMemory(allocs, blocks, pools, allocation)
            IN  /\ allocs' = r.allocs
                /\ blocks' = r.blocks
                /\ owned' = owned \ {allocation}
                /\ last' = Call("free_memory", "unit", allocation, NULL)
                /\ UNCHANGED <<shareVars, virtVars, dctx, internal, dropped,
                               destroyCalls, faulted, buffers, pools, made,
                               maps, ptrs>>

FreeMemory == \E h \in Known : free_memory(h)

(* --------------------------- several threads --------------------------- *)

\* Threads sharing the allocator (it is Sync).
MaxThreads == 2

ThreadIds == 1..MaxThreads

NoThread == 0

NoSeen == [allocs |-> [h \in Handles |-> NoAlloc],
           blocks |-> [m \in MemIds |-> NoBlock]]

\* A thread between two calls, holding the allocations `held`.
Idle(held) == [at |-> "idle", op |-> "none", h |-> NULL, size |-> 0,
               seen |-> NoSeen, held |-> held]

\* A lock that takes nothing, as under EXTERNALLY_SYNCHRONIZED.
VmaMutexLockOmitted(m, t) == [acquired |-> TRUE, mutex |-> m]

\* VmaMutexLock on the allocator's mutex: thread t gets past it only when
\* no thread holds it.
VmaMutexLock(m, t) == [acquired |-> m = NoThread, mutex |-> t]

\* The lock is given back at the end of the native call.
VmaMutexUnlock(m, t) == IF m = t THEN NoThread ELSE m

\* The request the threads allocate with: memory they can map.
ThreadAllocInfo == AllocInfo("Unknown", {}, {"HOST_VISIBLE"}, {})

\* vmaAllocateMemory: one allocation for the given requirements.
vmaAllocateMemory(A, B, P, req, ffi) ==
    {[result |-> r.result, allocs |-> r.allocs, blocks |-> r.blocks,
      h |-> IF r.hs = <<>> THEN NULL ELSE r.hs[1], ptr |-> NULL] :
        r \in vmaAllocateMemoryPages(A, B, P, req, ffi, 1)}

\* vmaBindBufferMemory: vkBindBufferMemory on the allocation's memory, at
\* its offset; the allocator's records stay as they are.
vmaBindBufferMemory(A, B, h) ==
    [result |-> "SUCCESS", allocs |-> A, blocks |-> B, h |-> h, ptr |-> NULL]

\* The calls the threads make.
ThreadOps == {"allocate_memory", "free_memory", "map_memory",
              "unmap_memory", "bind_buffer_memory"}

\* Thread t makes a call on the allocator, on an allocation it holds: it
\* takes the mutex and reads the allocator's records.
thread_call(t, op, h, size) ==
    /\ Usable
    /\ internal = "valid"
    /\ threads[t].at = "idle"
    /\ CASE op = "allocate_memory" ->
                h = NULL /\ size \in BufSizes /\ FreeHandles(allocs) # {}
         [] op = "free_memory" ->
                h \in threads[t].held /\ size = 0 /\ maps[h] = 0
         [] op = "map_memory" ->
                h \in threads[t].held /\ size = 0 /\ maps[h] < MaxMapCount
         [] op = "unmap_memory" ->
                h \in threads[t].held /\ size = 0 /\ maps[h] > 0
         [] op = "bind_buffer_memory" ->
                h \in threads[t].held /\ size = 0 /\ h \notin buffers
    /\ VmaMutexLock(mutex, t).acquired
    /\ mutex' = VmaMutexLock(mutex, t).mutex
    /\ threads' = [threads EXCEPT ![t] =
                      [at |-> "inside", op |-> op, h |-> h, size |-> size,
                       seen |-> [allocs |-> allocs, blocks |-> blocks],
                       held |-> threads[t].held]]
    /\ UNCHANGED <<allocVars, dctx, virtVars, arc>>

ThreadCall ==
    \E t \in ThreadIds, op \in ThreadOps, h \in Handles \cup {NULL},
       size \in BufSizes \cup {0} :
        thread_call(t, op, h, size)

\* What the native call of a thread produces from the records it read.
ThreadOutcomes(c) ==
    LET A == c.seen.allocs
        B == c.seen.blocks
    IN  CASE c.op = "allocate_memory" ->
                 vmaAllocateMemory(
                     A, B, pools,
                     CHOOSE req \in MemoryRequirements :
                         req.size = vkGetBufferMemoryRequirements(c.size).size,
                     AllocationCreateInfoIntoFfi(ThreadAllocInfo))
          [] c.op = "free_memory" ->
                 {[result |-> "unit", h |-> c.h, ptr |-> NULL,
                   allocs |-> vmaFreeMemory(A, B, pools, c.h).allocs,
                   blocks |-> vmaFreeMemory(A, B, pools, c.h).blocks]}
          [] c.op = "map_memory" ->
                 {[result |-> r.result, allocs |-> r.allocs,
                   blocks |-> r.blocks, h |-> c.h, ptr |-> r.ptr] :
                      r \in vmaMapMemory(A, B, c.h)}
          [] c.op = "unmap_memory" ->
                 {[result |-> "unit", h |-> c.h, ptr |-> NULL,
                   allocs |-> vmaUnmapMemory(A, B, c.h).allocs,
                   blocks |-> vmaUnmapMemory(A, B, c.h).blocks]}
          [] c.op = "bind_buffer_memory" ->
                 {vmaBindBufferMemory(A, B, c.h)}

\* The call of thread t returns: the records it worked out are written,
\* the mutex is given back, the caller takes or gives up the allocation.
thread_return(t) ==
    /\ threads[t].at = "inside"
    /\ LET c == threads[t]
       IN  \E r \in ThreadOutcomes(c) :
              LET ok == r.result \in {"SUCCESS", "unit"}
              IN  /\ allocs' = r.allocs
                  /\ blocks' = r.blocks
                  /\ last' = Call(c.op, r.result, r.h, r.ptr)
                  /\ threads' = [threads EXCEPT ![t] =
                         Idle(CASE c.op = "allocate_memory" /\ ok
                                       -> c.held \cup {r.h}
                                [] c.op = "free_memory" -> c.held \ {c.h}
                                [] OTHER -> c.held)]
                  /\ owned' = CASE c.op = "allocate_memory" /\ ok
                                       -> owned \cup {r.h}
                                [] c.op = "free_memory" -> owned \ {c.h}
                                [] OTHER -> owned
                  /\ made' = IF c.op = "allocate_memory" /\ ok
                             THEN [made EXCEPT ![r.h] =
                                      [size |-> c.size, flags |-> {},
                                       via |-> NULL]]
                             ELSE made
                  /\ maps' = CASE c.op = "map_memory" /\ ok
                                      -> [maps EXCEPT ![c.h] = @ + 1]
                               [] c.op = "unmap_memory"
                                      -> [maps EXCEPT ![c.h] = @ - 1]
                               [] OTHER -> maps
                  /\ ptrs' = CASE c.op = "map_memory" /\ ok
                                      -> [ptrs EXCEPT ![c.h] = @ \cup {r.ptr}]
                               [] c.op = "unmap_memory"
                                      -> [ptrs EXCEPT ![c.h] =
                                             IF maps[c.h] = 1 THEN {} ELSE @]
                               [] OTHER -> ptrs
                  /\ buffers' = CASE c.op = "bind_buffer_memory" /\ ok
                                         -> buffers \cup {c.h}
                                  [] c.op = "free_memory" -> buffers \ {c.h}
                                  [] OTHER -> buffers
    /\ mutex' = VmaMutexUnlock(mutex, t)
    /\ UNCHANGED <<virtVars, dctx, internal, dropped, destroyCalls, faulted,
                   pools, arc>>

ThreadReturn == \E t \in ThreadIds : thread_return(t)

(* ---------------------- choosing a memory type ------------------------- *)

\* The requests find_memory_type_index is asked about: every usage the
\* native library treats differently, with required and preferred flags
\* among those of the device and one the device does not have.
FindInfos ==
    [usage : {"Unknown", "GpuOnly", "CpuOnly"},
     flags : {{}},
     required_flags : {{}, {"HOST_VISIBLE"}, {"HOST_CACHED"}},
     preferred_flags : {{}, {"DEVICE_LOCAL"},
                        {"HOST_VISIBLE", "HOST_COHERENT"}},
     memory_type_bits : 0..AllTypeBits]

\* Alloc::find_memory_type_index, on the allocator or on a custom pool.
find_memory_type_index(self, memory_type_bits, allocation_info) ==
    /\ Usable
    /\ IF self.kind = "Allocator" THEN TRUE ELSE pools[self.pool].exists
    /\ LET ffi   == [AllocationCreateInfoIntoFfi(allocation_info)
                        EXCEPT !.pool = pool(self)]
           found == vmaFindMemoryTypeIndex(memory_type_bits, ffi)
           asked == [memory_type_bits |-> memory_type_bits,
                     usage |-> allocation_info.usage,
                     required_flags |-> allocation_info.required_flags,
                     preferred_flags |-> allocation_info.preferred_flags,
                     info_memory_type_bits |->
                         allocation_info.memory_type_bits,
                     index |-> 0]
       IN  IF internal = "null"
           THEN Undefined("find_memory_type_index", NULL)
           ELSE /\ IF found = {}
                   THEN last' = [Call("find_memory_type_index",
                                      "ERROR_FEATURE_NOT_PRESENT", NULL, NULL)
                                    EXCEPT !.find = asked]
                   ELSE \E memory_type_index \in found :
                           last' = [Call("find_memory_type_index", "SUCCESS",
                                         NULL, NULL)
                                       EXCEPT !.find =
                                           [asked EXCEPT !.index =
                                               memory_type_index]]
                /\ UNCHANGED <<shareVars, virtVars, dctx, internal, dropped,
                               destroyCalls, faulted, allocs, blocks, buffers,
                               pools, owned, made, maps, ptrs>>

\* A request made through a pool leaves its own memory_type_bits 0, the
\* member being documented as ignored when a pool is given.
FindMemoryTypeIndex ==
    \E self \in {TheAllocator} \cup {ThePool(p) : p \in PoolIds},
       memory_type_bits \in 0..AllTypeBits,
       allocation_info \in FindInfos :
        /\ self.kind = "AllocatorPool" => allocation_info.memory_type_bits = 0
        /\ find_memory_type_index(self, memory_type_bits, allocation_info)

(* ------------------------ corruption detection ------------------------- *)

\* The build of the native library: build.rs defines neither macro.
VMA_DEBUG_DETECT_CORRUPTION == 0

VMA_DEBUG_MARGIN == 0

\* Corruption detection is compiled in, and possible in memory type t.
CorruptionDetectionEnabled(t) ==
    /\ VMA_DEBUG_DETECT_CORRUPTION # 0
    /\ VMA_DEBUG_MARGIN # 0
    /\ {"HOST_VISIBLE", "HOST_COHERENT"} \subseteq MemTypeFlags(t)

\* vk::MemoryPropertyFlags::as_raw(): the mask of a set of property flags.
PropertyFlagBit(f) == CASE f = "DEVICE_LOCAL" -> 1
                        [] f = "HOST_VISIBLE" -> 2
                        [] f = "HOST_COHERENT" -> 4
                        [] f = "HOST_CACHED" -> 8

RECURSIVE as_raw(_)
as_raw(flags) == IF flags = {} THEN 0
                 ELSE LET f == CHOOSE x \in flags : TRUE
                      IN  PropertyFlagBit(f) + as_raw(flags \ {f})

\* vmaCheckCorruption: the margins around the allocations of the memory
\* types whose bit is set are checked, where detection is enabled.
vmaCheckCorruption(memoryTypeBits, corrupt) ==
    LET checked == {t \in MemTypes : /\ HasBit(memoryTypeBits, 2 ^ t)
                                     /\ CorruptionDetectionEnabled(t)}
    IN  IF checked = {} THEN "ERROR_FEATURE_NOT_PRESENT"
        ELSE IF corrupt THEN "ERROR_VALIDATION_FAILED_EXT"
        ELSE "SUCCESS"

\* vmaCheckPoolCorruption: the same for the blocks of one pool.
vmaCheckPoolCorruption(P, p, corrupt) ==
    IF ~CorruptionDetectionEnabled(P[p].memType)
    THEN "ERROR_FEATURE_NOT_PRESENT"
    ELSE IF corrupt THEN "ERROR_VALIDATION_FAILED_EXT"
    ELSE "SUCCESS"

\* check_corruption taking "detection not enabled" for success.
CheckCorruptionReturnForgiving(result) ==
    IF result = "ERROR_FEATURE_NOT_PRESENT" THEN "SUCCESS" ELSE result

\* What check_corruption returns for a native result: Ok(()) for SUCCESS,
\* the error for every other code.
CheckCorruptionReturn(result) == result

\* Allocator::check_corruption.  `corrupt`: whether the caller has written
\* over the margin of one of the allocations.
check_corruption(memory_types, corrupt) ==
    /\ Usable
    /\ IF internal = "null"
       THEN Undefined("check_corruption", NULL)
       ELSE /\ last' = [Call("check_corruption",
                             CheckCorruptionReturn(
                                 vmaCheckCorruption(as_raw(memory_types),
                                                    corrupt)),
                             NULL, NULL)
                           EXCEPT !.memoryTypes = memory_types,
                                  !.corrupt = corrupt]
            /\ UNCHANGED <<shareVars, virtVars, dctx, internal, dropped, destroyCalls,
                           faulted, allocs, blocks, buffers, pools, owned,
                           made, maps, ptrs>>

CheckCorruption ==
    \E memory_types \in SUBSET {"DEVICE_LOCAL", "HOST_VISIBLE",
                                "HOST_COHERENT", "HOST_CACHED"},
       corrupt \in BOOLEAN :
        check_corruption(memory_types, corrupt)

\* AllocatorPool::check_corruption.
check_pool_corruption(p, corrupt) ==
    /\ Usable
    /\ pools[p].exists
    /\ IF internal = "null"
       THEN Undefined("check_pool_corruption", NULL)
       ELSE /\ last' = [Call("check_pool_corruption",
                             CheckCorruptionReturn(
                                 vmaCheckPoolCorruption(pools, p, corrupt)),
                             p, NULL)
                           EXCEPT !.corrupt = corrupt]
            /\ UNCHANGED <<shareVars, virtVars, dctx, internal, dropped, destroyCalls,
                           faulted, allocs, blocks, buffers, pools, owned,
                           made, maps, ptrs>>

CheckPoolCorruption ==
    \E p \in PoolIds, corrupt \in BOOLEAN : check_pool_corruption(p, corrupt)

\* destroy() without its null check.
DestroyUnguarded == TRUE

\* Whether destroy() finds a native allocator to destroy.
DestroyNeeded == internal # "null"

\* The body of Allocator::destroy: destroy the native allocator unless the
\* handle is already null, and set the handle to null.  The native call
\* requires every allocation to have been freed.
DestroyBody ==
    IF DestroyNeeded
    THEN /\ destroyCalls' = destroyCalls + 1
         /\ internal' = "null"
         /\ blocks' = [m \in MemIds |-> NoBlock]
         /\ pools' = [p \in PoolIds |-> NoPool]
         /\ faulted' \in (IF Live(allocs) = {} THEN {"no"}
                                               ELSE UndefinedOutcomes)
    ELSE UNCHANGED <<destroyCalls, internal, blocks, pools, faulted>>

\* Allocator::destroy.
destroy ==
    /\ Usable
    /\ DestroyBody
    /\ last' = Call("destroy", "unit", NULL, NULL)
    /\ UNCHANGED <<shareVars, virtVars, dctx, dropped, allocs, buffers, owned, made, maps, ptrs>>

\* Drop for Allocator: calls destroy().
drop ==
    /\ Usable
    /\ DestroyBody
    /\ dropped' = TRUE
    /\ last' = Call("drop", "unit", NULL, NULL)
    /\ UNCHANGED <<shareVars, virtVars, dctx, allocs, buffers, owned, made, maps, ptrs>>

(* ------------------- the allocator and its pools ----------------------- *)

\* The custom pools there are AllocatorPool values of.
PoolsAlive == {p \in PoolIds : pools[p].exists}

\* A strong count that leaves out the pools: an AllocatorPool holding a
\* plain reference in place of a clone of the Arc.
StrongCountOfCaller == IF arc = "held" THEN 1 ELSE 0

\* Arc::strong_count of the allocator: the caller's Arc, and the clone
\* each AllocatorPool holds.
StrongCount == (IF arc = "held" THEN 1 ELSE 0) + Cardinality(PoolsAlive)

\* create_pool takes self: &Arc<Self>: the caller holds an Arc.
CreatePoolThroughArc == arc = "held" /\ CreatePoolOfAny

\* Buffers made through an AllocatorPool, which has the allocator by its
\* own Arc.
CreateBufferThroughPool ==
    \E p \in PoolsAlive, size \in BufSizes :
        /\ ~pools[p].linear
        /\ create_buffer(ThePool(p), size, ThreadAllocInfo, "ok")

\* Allocator::destroy, reached through the Arc: Arc::get_mut gives the
\* &mut Allocator it needs only to the holder of the single reference.
destroy_unique ==
    /\ Usable
    /\ arc = "held"
    /\ IF StrongCount = 1
       THEN DestroyBody
       ELSE UNCHANGED <<destroyCalls, internal, blocks, pools, faulted>>
    /\ last' = Call("destroy", IF StrongCount = 1 THEN "unit" ELSE "none",
                    NULL, NULL)
    /\ UNCHANGED <<shareVars, virtVars, dctx, dropped, allocs, buffers,
                   owned, made, maps, ptrs>>

\* The caller lets go of its Arc<Allocator>; Drop for Allocator runs when
\* it was the last one.
drop_arc ==
    /\ Usable
    /\ arc = "held"
    /\ arc' = "released"
    /\ IF StrongCount = 1
       THEN DestroyBody /\ dropped' = TRUE
       ELSE UNCHANGED <<destroyCalls, internal, blocks, pools, faulted,
                        dropped>>
    /\ last' = Call("drop_arc", "unit", NULL, NULL)
    /\ UNCHANGED <<mutex, threads, virtVars, dctx, allocs, buffers, owned,
                   made, maps, ptrs>>

\* An AllocatorPool goes away: Drop for AllocatorPool destroys the native
\* pool, then the field `allocator` is dropped, and with the last Arc the
\* Allocator.
drop_pool_and_arc(p) ==
    /\ Usable
    /\ pools[p].exists
    /\ IF \/ internal = "null"
          \/ \E h \in Live(allocs) : blocks[allocs[h].mem].pool = p
       THEN Undefined("drop_pool", NULL)
       ELSE /\ last' = Call("drop_pool", "unit", p, NULL)
            /\ IF StrongCount = 1
               THEN /\ DestroyBody
                    /\ dropped' = TRUE
               ELSE /\ pools' = [pools EXCEPT ![p] = NoPool]
                    /\ blocks' = [m \in MemIds |->
                                     IF blocks[m].exists /\ blocks[m].pool = p
                                     THEN NoBlock ELSE blocks[m]]
                    /\ UNCHANGED <<destroyCalls, internal, faulted, dropped>>
            /\ UNCHANGED <<shareVars, virtVars, dctx, allocs, buffers,
                           owned, made, maps, ptrs>>

DropPoolAndArc == \E p \in PoolIds : drop_pool_and_arc(p)

(* --------------------------- defragmentation --------------------------- *)

\* Moves the native library proposes in one pass, at most.
MaxPassMoves == 2

NoDefragStats == [bytesMoved |-> 0, allocationsMoved |-> 0]

\* DefragmentationContext: the Rust value (ctx: none, open, forgotten,
\* dropped), the state of the native context it wraps, and what the calls
\* on it returned.
NoContext ==
    [ctx          |-> "none",
     native       |-> "Idle",
     inOrder      |-> TRUE,      \* every native call came in its turn
     endCalls     |-> 0,         \* vmaEndDefragmentation calls on it
     moves        |-> {},        \* the moves of the pass in progress
     beginStatus  |-> "none",    \* last vmaBeginDefragmentationPass result
     endStatus    |-> "none",    \* last vmaEndDefragmentationPass result
     passes       |-> 0,         \* passes completed (0, 1, or 2 for more)
     ret          |-> "none",    \* what the last begin_pass returned
     mover        |-> FALSE,     \* the last begin_pass ran the mover
     endPass      |-> FALSE,     \* ... and vmaEndDefragmentationPass
     bytesMoved   |-> 0,         \* native statistics
     allocationsMoved |-> 0,
     stats        |-> NoDefragStats, \* what end() returned
     liveAtBegin  |-> 0]

\* Allocations the native library may move: live, in a block, with no
\* map_memory outstanding.
Movable(A, B) ==
    {h \in Live(A) : ~B[A[h].mem].dedicated /\ A[h].mapCount = 0}

\* <<m1, o1>> lies before <<m2, o2>>.
Before(m1, o1, m2, o2) == m1 < m2 \/ (m1 = m2 /\ o1 < o2)

\* The moves that compact the layout: an allocation goes to a free range
\* of a block of its memory type and pool that lies before its own.
CandidateMoves(A, B) ==
    {mv \in [h : Movable(A, B), mem : MemIds, offset : 0 .. (BlockSize - 1)] :
        /\ B[mv.mem].exists /\ ~B[mv.mem].dedicated
        /\ B[mv.mem].memType = B[A[mv.h].mem].memType
        /\ B[mv.mem].pool = B[A[mv.h].mem].pool
        /\ mv.offset % MemReqAlign = 0
        /\ mv.offset + A[mv.h].size <= B[mv.mem].size
        /\ Before(mv.mem, mv.offset, A[mv.h].mem, A[mv.h].offset)
        /\ IsFree(A, mv.mem, mv.offset, A[mv.h].size)}

\* The moves of one pass do not collide: one move per allocation, and
\* destinations that do not overlap.
Compatible(A, S) ==
    \A x \in S, y \in S :
        x # y => /\ x.h # y.h
                 /\ \/ x.mem # y.mem
                    \/ (x.offset .. (x.offset + A[x.h].size - 1))
                         \cap (y.offset .. (y.offset + A[y.h].size - 1)) = {}

PassPlans(A, B) ==
    {S \in SUBSET CandidateMoves(A, B) :
        /\ S # {}
        /\ Cardinality(S) <= MaxPassMoves
        /\ Compatible(A, S)}

\* A block left empty is released when its pool keeps another empty block.
ReleaseEmpty(A, B, m) ==
    IF /\ B[m].exists /\ ~B[m].dedicated /\ LiveIn(A, m) = {}
       /\ \E n \in MemIds \ {m} :
              /\ B[n].exists /\ ~B[n].dedicated
              /\ B[n].memType = B[m].memType /\ B[n].pool = B[m].pool
              /\ LiveIn(A, n) = {}
    THEN [B EXCEPT ![m] = NoBlock]
    ELSE B

\* One move applied: the allocation changes place, and a persistent
\* mapping follows it to the destination's device memory.
ApplyMove(L, mv) ==
    LET A   == L.allocs
        B   == L.blocks
        src == A[mv.h].mem
        B1  == IF A[mv.h].persistent /\ src # mv.mem
               THEN BlockMap(BlockUnmap(B, src), mv.mem) ELSE B
        A1  == [A EXCEPT ![mv.h].mem = mv.mem, ![mv.h].offset = mv.offset]
    IN  [allocs |-> A1, blocks |-> ReleaseEmpty(A1, B1, src)]

RECURSIVE ApplyMoves(_, _)
ApplyMoves(L, S) ==
    IF S = {} THEN L
    ELSE LET mv == CHOOSE x \in S : TRUE
         IN  ApplyMoves(ApplyMove(L, mv), S \ {mv})

\* vmaBeginDefragmentation: Idle -> Begun.
vmaBeginDefragmentation(c) ==
    [c EXCEPT !.inOrder = @ /\ c.native = "Idle",
              !.native = "Begun"]

\* vmaBeginDefragmentationPass: from Begun or PassApplied; INCOMPLETE
\* with the moves of the pass (-> PassReady), SUCCESS when there is
\* nothing to move.  The set of possible outcomes.
vmaBeginDefragmentationPass(c, A, B) ==
    LET inTurn == c.native \in {"Begun", "PassApplied"}
    IN  IF CandidateMoves(A, B) = {}
        THEN {[c EXCEPT !.inOrder = @ /\ inTurn,
                        !.beginStatus = "SUCCESS", !.moves = {}]}
        ELSE {[c EXCEPT !.inOrder = @ /\ inTurn,
                        !.beginStatus = "INCOMPLETE", !.moves = S,
                        !.native = "PassReady"] : S \in PassPlans(A, B)}

\* vmaEndDefragmentationPass: from PassReady; commits the moves
\* (-> PassApplied).  INCOMPLETE while moves remain; SUCCESS, or
\* INCOMPLETE once more, when none does.
vmaEndDefragmentationPass(c, A, B) ==
    LET L  == ApplyMoves([allocs |-> A, blocks |-> B], c.moves)
        c1 == [c EXCEPT !.inOrder = @ /\ c.native = "PassReady",
                        !.native = "PassApplied",
                        !.bytesMoved = @ + SumSizes(A, {mv.h : mv \in c.moves}),
                        !.allocationsMoved = @ + Cardinality(c.moves),
                        !.moves = {}]
    IN  {[c |-> [c1 EXCEPT !.endStatus = st], allocs |-> L.allocs,
          blocks |-> L.blocks] :
            st \in (IF CandidateMoves(L.allocs, L.blocks) # {}
                    THEN {"INCOMPLETE"} ELSE {"SUCCESS", "INCOMPLETE"})}

\* vmaEndDefragmentation: from Begun or PassApplied -> Ended; writes the
\* statistics when given a place for them.
vmaEndDefragmentation(c) ==
    [c EXCEPT !.inOrder = @ /\ c.native \in {"Begun", "PassApplied"},
              !.native = "Ended",
              !.endCalls = @ + 1]

\* A Drop that lets the value go without the native call.
DropContextWithoutEnd(c) == [c EXCEPT !.ctx = "dropped"]

\* Drop for DefragmentationContext: ends the native defragmentation.
DropContext(c) == [vmaEndDefragmentation(c) EXCEPT !.ctx = "dropped"]

\* end() without mem::forget: the value stays, and its Drop runs.
forget_left_out(c) == c

\* mem::forget(self): the value goes away with its Drop left out.
forget(c) == [c EXCEPT !.ctx = "forgotten"]

\* The end of a scope that owns the context: Drop runs for a value that
\* is still there.
ScopeEnd(c) == IF c.ctx = "open" THEN DropContext(c) ELSE c

\* begin_pass with the sense of the native end-pass result inverted.
BeginPassReturnInverted(beginResult, endResult) ==
    IF beginResult = "SUCCESS" THEN FALSE ELSE endResult = "SUCCESS"

\* begin_pass that never reports the end of the moves.
BeginPassReturnAlways(beginResult, endResult) == TRUE

\* What begin_pass returns: false at once when the native begin-pass
\* reports SUCCESS, else whether the native end-pass reports INCOMPLETE.
BeginPassReturn(beginResult, endResult) ==
    IF beginResult = "SUCCESS" THEN FALSE ELSE endResult = "INCOMPLETE"

Bool(b) == IF b THEN "true" ELSE "false"

DefragUsable == ~dropped /\ Defined /\ internal = "valid"

\* Allocator::begin_defragmentation.
begin_defragmentation ==
    /\ DefragUsable
    /\ dctx.ctx # "open"
    /\ \E result \in {"SUCCESS", "ERROR_FEATURE_NOT_PRESENT"} :
          /\ dctx' = IF result = "SUCCESS"
                     THEN [vmaBeginDefragmentation(NoContext) EXCEPT
                              !.ctx = "open",
                              !.liveAtBegin = Cardinality(Live(allocs))]
                     ELSE NoContext
          /\ last' = Call("begin_defragmentation", result, NULL, NULL)
    /\ UNCHANGED <<shareVars, virtVars, internal, dropped, destroyCalls, faulted, allocs, blocks,
                   buffers, pools, owned, made, maps, ptrs>>

\* A status vmaBeginDefragmentationPass is not documented to return.
ErrorStatuses == {"ERROR_OUT_OF_DEVICE_MEMORY"}

\* The native begin-pass reporting an error: no pass, no moves.
BeginPassFailures(c) ==
    {[c EXCEPT !.beginStatus = e, !.moves = {}] : e \in ErrorStatuses}

\* DefragmentationContext::begin_pass, the mover included: the caller
\* copies the data of every move and leaves the moves as proposed.
\* `begun`: what the native begin-pass may answer.  For a status that is
\* neither SUCCESS nor INCOMPLETE debug_assert_eq! panics where debug
\* assertions are compiled in; elsewhere the mover runs on the slice made
\* of pMoves, and the native end-pass is called out of its turn.
begin_pass_from(begun) ==
    /\ DefragUsable
    /\ dctx.ctx = "open"
    /\ \E c1 \in begun :
          IF c1.beginStatus = "SUCCESS"
          THEN /\ dctx' = [c1 EXCEPT
                              !.ret = Bool(BeginPassReturn(c1.beginStatus,
                                                           "none")),
                              !.mover = FALSE, !.endPass = FALSE]
               /\ UNCHANGED <<allocs, blocks, faulted>>
          ELSE \E debug_assertions \in
                     IF c1.beginStatus = "INCOMPLETE" THEN {FALSE}
                     ELSE BOOLEAN :
                  IF debug_assertions
                  THEN /\ dctx' = [c1 EXCEPT !.ret = "panic",
                                             !.mover = FALSE,
                                             !.endPass = FALSE]
                       /\ UNCHANGED <<allocs, blocks, faulted>>
                  ELSE \E r \in vmaEndDefragmentationPass(c1, allocs, blocks) :
                          /\ dctx' = [r.c EXCEPT
                                 !.ret = Bool(BeginPassReturn(
                                             c1.beginStatus, r.c.endStatus)),
                                 !.mover = TRUE, !.endPass = TRUE,
                                 !.passes = IF @ < 2 THEN @ + 1 ELSE @]
                          /\ allocs' = r.allocs
                          /\ blocks' = r.blocks
                          /\ IF r.c.inOrder THEN UNCHANGED faulted
                             ELSE faulted' \in UndefinedOutcomes
    /\ last' = Call("begin_pass", "unit", NULL, NULL)
    /\ UNCHANGED <<shareVars, virtVars, internal, dropped, destroyCalls,
                   buffers, pools, owned, made, maps, ptrs>>

\* begin_pass on the native library as documented: SUCCESS or INCOMPLETE.
begin_pass ==
    begin_pass_from(vmaBeginDefragmentationPass(dctx, allocs, blocks))

\* begin_pass on a native library that may also report an error.
BeginPassOnAnyStatus ==
    begin_pass_from(vmaBeginDefragmentationPass(dctx, allocs, blocks)
                       \cup BeginPassFailures(dctx))

\* DefragmentationContext::end: ends the native defragmentation, forgets
\* self, returns the statistics.
end ==
    /\ DefragUsable
    /\ dctx.ctx = "open"
    /\ LET c1 == vmaEndDefragmentation(dctx)
           c2 == ScopeEnd(forget(c1))
       IN  dctx' = [c2 EXCEPT !.stats =
                       [bytesMoved |-> c1.bytesMoved,
                        allocationsMoved |-> c1.allocationsMoved]]
    /\ last' = Call("end", "unit", NULL, NULL)
    /\ UNCHANGED <<shareVars, virtVars, internal, dropped, destroyCalls, faulted, allocs, blocks,
                   buffers, pools, owned, made, maps, ptrs>>

\* The context goes out of scope without end().
drop_context ==
    /\ DefragUsable
    /\ dctx.ctx = "open"
    /\ dctx' = ScopeEnd(dctx)
    /\ last' = Call("drop_context", "unit", NULL, NULL)
    /\ UNCHANGED <<shareVars, virtVars, internal, dropped, destroyCalls, faulted, allocs, blocks,
                   buffers, pools, owned, made, maps, ptrs>>

(* ---------------------------- virtual block ---------------------------- *)

\* Virtual allocation handles a VirtualBlock hands out, at most.
MaxVirtualAllocs == 4

\* The size of a virtual block, at most.
MaxVirtualSize == 4

\* The user data values of a request.
MaxUserData == 1

VHandles == 1 .. MaxVirtualAllocs

VirtualBlockSizes == {MaxVirtualSize - 2, MaxVirtualSize}

\* VirtualBlockCreateInfo: the size, and the linear algorithm or not.
VirtualBlockCreateInfos ==
    [size : VirtualBlockSizes, flags : {{}, {"LINEAR_ALGORITHM"}}]

\* The alignments of a request: none, or a power of two.
VirtualAlignments == {0, 2}

\* VirtualAllocationCreateInfo: sizes up to one more than any block's,
\* an alignment, a user data value, no flags.
VirtualAllocationCreateInfos ==
    [size      : 1 .. (MaxVirtualSize + 1),
     alignment : VirtualAlignments,
     user_data : 0 .. MaxUserData,
     flags     : {{}}]

NoVirtualBlock == [state |-> "none", size |-> 0, linear |-> FALSE,
                   destroyCalls |-> 0]

NoVirtualAlloc == [st |-> "unused", offset |-> 0, size |-> 0, userData |-> 0,
                   second |-> FALSE]

FreedVirtualAlloc == [NoVirtualAlloc EXCEPT !.st = "freed"]

NoVirtualRequest == [size |-> 0, alignment |-> 0, user_data |-> 0, offset |-> 0]

NoVirtualInfo == [offset |-> 0, size |-> 0, user_data |-> 0]

NoVirtualCall == [op |-> "none", result |-> "none", h |-> NULL, offset |-> 0,
                  info |-> NoVirtualInfo, fits |-> FALSE]

VDefined == vfaulted = "no"

\* The conversion with a smaller size than the request's.
VirtualAllocationCreateInfoShrunk(info) ==
    [size      |-> info.size - 1,
     alignment |-> info.alignment,
     flags     |-> SumBits(info.flags),
     pUserData |-> info.user_data]

\* The conversion with the alignment left out.
VirtualAllocationCreateInfoUnaligned(info) ==
    [size      |-> info.size,
     alignment |-> 0,
     flags     |-> SumBits(info.flags),
     pUserData |-> info.user_data]

\* From<&VirtualAllocationCreateInfo> for ffi::VmaVirtualAllocationCreateInfo.
VirtualAllocationCreateInfoIntoFfi(info) ==
    [size      |-> info.size,
     alignment |-> info.alignment,
     flags     |-> SumBits(info.flags),
     pUserData |-> info.user_data]

\* The conversion with offset and size taken for one another.
VirtualAllocationInfoSwapped(info) ==
    [offset    |-> info.size,
     size      |-> info.offset,
     user_data |-> info.pUserData]

\* From<&ffi::VmaVirtualAllocationInfo> for VirtualAllocationInfo.
VirtualAllocationInfoFrom(info) ==
    [offset    |-> info.offset,
     size      |-> info.size,
     user_data |-> info.pUserData]

VLive(A) == {h \in VHandles : A[h].st = "live"}

VRange(a) == a.offset .. (a.offset + a.size - 1)

\* Alignment 0 means 1.
VAlign(alignment) == IF alignment = 0 THEN 1 ELSE alignment

\* [o, o + size) lies in the block and meets no live allocation.
VIsFree(blk, A, o, size) ==
    /\ o + size <= blk.size
    /\ \A h \in VLive(A) : VRange(A[h]) \cap (o .. (o + size - 1)) = {}

\* The free ranges of the block that fit the request.
VFreeRanges(blk, A, size, alignment) ==
    {o \in 0 .. (blk.size - 1) :
        o % VAlign(alignment) = 0 /\ VIsFree(blk, A, o, size)}

Max(S) == CHOOSE x \in S : \A y \in S : y <= x

\* The end of the allocations of S; 0 when there is none.
VEnd(A, S) == IF S = {} THEN 0 ELSE Max({A[h].offset + A[h].size : h \in S})

\* The places the default algorithm may give: any free range that fits.
VPlacesDefault(blk, A, size, alignment) ==
    {[offset |-> o, second |-> FALSE] :
        o \in VFreeRanges(blk, A, size, alignment)}

\* The place the linear algorithm gives: after the last allocation; when
\* that does not fit, as a ring buffer, from offset 0 up to the first
\* allocation, each new one after the last of these.  Space freed in
\* between is not taken again.
VPlacesLinear(blk, A, size, alignment) ==
    LET first  == {h \in VLive(A) : ~A[h].second}
        second == {h \in VLive(A) : A[h].second}
        o1     == RoundUp(VEnd(A, first), VAlign(alignment))
        o2     == RoundUp(VEnd(A, second), VAlign(alignment))
        start  == Min({A[h].offset : h \in first})
    IN  IF second = {} /\ o1 + size <= blk.size
        THEN {[offset |-> o1, second |-> FALSE]}
        ELSE IF first # {} /\ o2 + size <= start
        THEN {[offset |-> o2, second |-> TRUE]}
        ELSE {}

VPlaces(blk, A, size, alignment) ==
    IF blk.linear THEN VPlacesLinear(blk, A, size, alignment)
    ELSE VPlacesDefault(blk, A, size, alignment)

VFreeHandles(A) == {h \in VHandles : A[h].st = "unused"}

\* An allocate that, finding no place, gives up the allocations made.
vmaVirtualAllocateOrClear(blk, A, ffi) ==
    LET places == VPlaces(blk, A, ffi.size, ffi.alignment)
        h      == Min(VFreeHandles(A))
    IN  IF places = {}
        THEN {[result |-> "ERROR_OUT_OF_DEVICE_MEMORY",
               allocs |-> [g \in VHandles |->
                              IF A[g].st = "live" THEN FreedVirtualAlloc
                              ELSE A[g]],
               h |-> NULL, offset |-> 0]}
        ELSE {[result |-> "SUCCESS",
               allocs |-> [A EXCEPT ![h] =
                              [st |-> "live", offset |-> p.offset,
                               size |-> ffi.size, userData |-> ffi.pUserData,
                               second |-> p.second]],
               h |-> h, offset |-> p.offset] : p \in places}

\* vmaVirtualAllocate: the outcomes.
vmaVirtualAllocate(blk, A, ffi) ==
    LET places == VPlaces(blk, A, ffi.size, ffi.alignment)
        h      == Min(VFreeHandles(A))
    IN  IF places = {}
        THEN {[result |-> "ERROR_OUT_OF_DEVICE_MEMORY", allocs |-> A,
               h |-> NULL, offset |-> 0]}
        ELSE {[result |-> "SUCCESS",
               allocs |-> [A EXCEPT ![h] =
                              [st |-> "live", offset |-> p.offset,
                               size |-> ffi.size, userData |-> ffi.pUserData,
                               second |-> p.second]],
               h |-> h, offset |-> p.offset] : p \in places}

\* The linear algorithm, once its first run of allocations is all freed,
\* goes on with the ring-buffer run as the first.
VCleanup(blk, A) ==
    IF blk.linear /\ {h \in VLive(A) : ~A[h].second} = {}
    THEN [h \in VHandles |-> [A[h] EXCEPT !.second = FALSE]]
    ELSE A

\* vmaVirtualFree of a live allocation.
vmaVirtualFree(blk, A, h) ==
    VCleanup(blk, [A EXCEPT ![h] = FreedVirtualAlloc])

\* vmaClearVirtualBlock: every allocation is freed.
vmaClearVirtualBlock(A) ==
    [h \in VHandles |->
        IF A[h].st = "live" THEN FreedVirtualAlloc ELSE A[h]]

\* vmaGetVirtualAllocationInfo of a live allocation.
vmaGetVirtualAllocationInfo(A, h) ==
    [offset |-> A[h].offset, size |-> A[h].size, pUserData |-> A[h].userData]

\* vmaSetVirtualAllocationUserData of a live allocation.
vmaSetVirtualAllocationUserData(A, h, user_data) ==
    [A EXCEPT ![h].userData = user_data]

\* The record of a VirtualBlock call.
VCall(op, result, h) == [NoVirtualCall EXCEPT !.op = op, !.result = result, !.h = h]

\* The call reaches the native library outside its contract.
VUndefined(op, h) ==
    /\ vfaulted' \in UndefinedOutcomes
    /\ vlast' = VCall(op, "undefined", h)
    /\ UNCHANGED <<vblock, vallocs, vowned, vmade>>

\* A call on the VirtualBlock: the value is there.
VUsable == vblock.state = "valid" /\ VDefined

\* Virtual allocations the caller can pass: a VirtualAllocation stays in
\* hand after free, which borrows it.
VKnown == {h \in VHandles : vallocs[h].st # "unused"}

\* VirtualBlock::new.
VirtualBlock_new(create_info) ==
    /\ vblock.state = "none"
    /\ VDefined
    /\ vblock' = [state |-> "valid", size |-> create_info.size,
                  linear |-> "LINEAR_ALGORITHM" \in create_info.flags,
                  destroyCalls |-> 0]
    /\ vlast' = VCall("new", "SUCCESS", NULL)
    /\ UNCHANGED <<shareVars, allocVars, dctx, vallocs, vowned, vmade, vfaulted>>

VirtualBlockNew ==
    \E create_info \in VirtualBlockCreateInfos : VirtualBlock_new(create_info)

\* VirtualBlock::allocate.
VirtualBlock_allocate(allocation_info) ==
    /\ VUsable
    /\ VFreeHandles(vallocs) # {}
    /\ LET create_info == VirtualAllocationCreateInfoIntoFfi(allocation_info)
       IN  \E r \in vmaVirtualAllocate(vblock, vallocs, create_info) :
              /\ vallocs' = r.allocs
              /\ vlast' = [VCall("allocate", r.result, r.h) EXCEPT
                             !.offset = r.offset,
                             !.fits = VFreeRanges(vblock, vallocs,
                                                  allocation_info.size,
                                                  allocation_info.alignment) # {}]
              /\ IF r.result = "SUCCESS"
                 THEN /\ vowned' = vowned \cup {r.h}
                      /\ vmade' = [vmade EXCEPT ![r.h] =
                                     [size      |-> allocation_info.size,
                                      alignment |-> allocation_info.alignment,
                                      user_data |-> allocation_info.user_data,
                                      offset    |-> r.offset]]
                 ELSE UNCHANGED <<vowned, vmade>>
    /\ UNCHANGED <<shareVars, allocVars, dctx, vblock, vfaulted>>

VirtualAllocate ==
    \E allocation_info \in VirtualAllocationCreateInfos :
        VirtualBlock_allocate(allocation_info)

\* free returning without the native call.
VirtualBlock_free_unforwarded(allocation) ==
    /\ VUsable
    /\ vowned' = vowned \ {allocation}
    /\ vlast' = VCall("free", "unit", allocation)
    /\ UNCHANGED <<shareVars, allocVars, dctx, vblock, vallocs, vmade, vfaulted>>

\* VirtualBlock::free: the native call does nothing on a null handle; the
\* VirtualAllocation is left as it is.
VirtualBlock_free(allocation) ==
    /\ VUsable
    /\ IF allocation = NULL
       THEN /\ vlast' = VCall("free", "unit", allocation)
            /\ UNCHANGED <<vallocs, vowned, vmade, vfaulted>>
       ELSE IF vallocs[allocation].st = "freed"
       THEN VUndefined("free", allocation)
       ELSE /\ vallocs' = vmaVirtualFree(vblock, vallocs, allocation)
            /\ vowned' = vowned \ {allocation}
            /\ vmade' = [vmade EXCEPT ![allocation] = NoVirtualRequest]
            /\ vlast' = VCall("free", "unit", allocation)
            /\ UNCHANGED vfaulted
    /\ UNCHANGED <<shareVars, allocVars, dctx, vblock>>

VirtualFree == \E h \in VKnown \cup {NULL} : VirtualBlock_free(h)

\* VirtualBlock::clear.
VirtualBlock_clear ==
    /\ VUsable
    /\ vallocs' = vmaClearVirtualBlock(vallocs)
    /\ vowned' = {}
    /\ vmade' = [h \in VHandles |-> NoVirtualRequest]
    /\ vlast' = VCall("clear", "unit", NULL)
    /\ UNCHANGED <<shareVars, allocVars, dctx, vblock, vfaulted>>

\* VirtualBlock::get_allocation_info.
VirtualBlock_get_allocation_info(allocation) ==
    /\ VUsable
    /\ IF vallocs[allocation].st = "freed"
       THEN VUndefined("get_allocation_info", allocation)
       ELSE /\ vlast' = [VCall("get_allocation_info", "SUCCESS", allocation)
                            EXCEPT !.info = VirtualAllocationInfoFrom(
                                vmaGetVirtualAllocationInfo(vallocs, allocation))]
            /\ UNCHANGED <<vallocs, vowned, vmade, vfaulted>>
    /\ UNCHANGED <<shareVars, allocVars, dctx, vblock>>

VirtualGetAllocationInfo ==
    \E h \in VKnown : VirtualBlock_get_allocation_info(h)

\* VirtualBlock::set_allocation_user_data.
VirtualBlock_set_allocation_user_data(allocation, user_data) ==
    /\ VUsable
    /\ IF vallocs[allocation].st = "freed"
       THEN VUndefined("set_allocation_user_data", allocation)
       ELSE /\ vallocs' = vmaSetVirtualAllocationUserData(vallocs, allocation,
                                                          user_data)
            /\ vmade' = [vmade EXCEPT ![allocation].user_data = user_data]
            /\ vlast' = VCall("set_allocation_user_data", "unit", allocation)
            /\ UNCHANGED <<vowned, vfaulted>>
    /\ UNCHANGED <<shareVars, allocVars, dctx, vblock>>

VirtualSetAllocationUserData ==
    \E h \in VKnown, user_data \in 0 .. MaxUserData :
        VirtualBlock_set_allocation_user_data(h, user_data)

\* Drop::drop of a VirtualBlock: vmaDestroyVirtualBlock on its handle.
\* destroyCalls: the native destructions of the block so far.
VDrop(b) == [b EXCEPT !.state = "dropped", !.destroyCalls = @ + 1]

\* into_raw without mem::forget: the value stays, and its Drop runs.
Vforget_left_out(b) == b

\* mem::forget(self): the value goes away with its Drop left out; the
\* handle is the caller's.
Vforget(b) == [b EXCEPT !.state = "raw"]

\* The end of a scope that owns the VirtualBlock: Drop runs for a value
\* that is still there.
VScopeEnd(b) == IF b.state = "valid" THEN VDrop(b) ELSE b

\* Drop for VirtualBlock: the native block is destroyed, which requires
\* every allocation to have been freed, and the handle set to null.
VirtualBlock_drop ==
    /\ VUsable
    /\ vblock' = VDrop(vblock)
    /\ vfaulted' \in (IF VLive(vallocs) = {} THEN {"no"} ELSE UndefinedOutcomes)
    /\ vlast' = VCall("drop", "unit", NULL)
    /\ UNCHANGED <<shareVars, allocVars, dctx, vallocs, vowned, vmade>>

\* VirtualBlock::into_raw: the handle is read, the value forgotten.
VirtualBlock_into_raw ==
    /\ VUsable
    /\ vblock' = VScopeEnd(Vforget(vblock))
    /\ vfaulted' \in (IF VScopeEnd(Vforget(vblock)).destroyCalls
                             = vblock.destroyCalls \/ VLive(vallocs) = {}
                      THEN {"no"} ELSE UndefinedOutcomes)
    /\ vlast' = VCall("into_raw", "unit", NULL)
    /\ UNCHANGED <<shareVars, allocVars, dctx, vallocs, vowned, vmade>>

\* VirtualBlock::from_raw on the handle into_raw gave: the ownership goes
\* back into a VirtualBlock.
VirtualBlock_from_raw ==
    /\ vblock.state = "raw"
    /\ VDefined
    /\ vblock' = [vblock EXCEPT !.state = "valid"]
    /\ vlast' = VCall("from_raw", "unit", NULL)
    /\ UNCHANGED <<shareVars, allocVars, dctx, vallocs, vowned, vmade,
                   vfaulted>>

Init ==
    /\ internal = "valid"
    /\ dropped = FALSE
    /\ destroyCalls = 0
    /\ faulted = "no"
    /\ allocs = [h \in Handles |-> NoAlloc]
    /\ blocks = [m \in MemIds |-> NoBlock]
    /\ buffers = {}
    /\ pools = [p \in PoolIds |-> NoPool]
    /\ owned = {}
    /\ made = [h \in Handles |-> NoRequest]
    /\ maps = [h \in Handles |-> 0]
    /\ ptrs = [h \in Handles |-> {}]
    /\ last = NoCall
    /\ dctx = NoContext
    /\ vblock = NoVirtualBlock
    /\ vallocs = [h \in VHandles |-> NoVirtualAlloc]
    /\ vowned = {}
    /\ vmade = [h \in VHandles |-> NoVirtualRequest]
    /\ vlast = NoVirtualCall
    /\ vfaulted = "no"
    /\ mutex = NoThread
    /\ threads = [t \in ThreadIds |-> Idle({})]
    /\ arc = "held"

vars == <<allocVars, dctx, virtVars, shareVars>>

Next ==
    \/ CreateBuffer
    \/ DestroyBuffer
    \/ MapMemory
    \/ UnmapMemory
    \/ GetAllocationInfo
    \/ calculate_stats
    \/ CreatePool
    \/ destroy
    \/ drop

Spec == Init /\ [][Next]_vars

\* The caller of a defragmentation: buffers in host-visible memory come
\* and go, and defragmentations run over them.
CreateHostBuffer ==
    \E size \in BufSizes :
        create_buffer(TheAllocator, size,
                      AllocInfo("Unknown", {}, {"HOST_VISIBLE"}, {}), "ok")

DestroyOwned == \E h \in owned : destroy_buffer(h, h)

NextDefrag ==
    \/ CreateHostBuffer
    \/ DestroyOwned
    \/ begin_defragmentation
    \/ begin_pass
    \/ end
    \/ drop_context

SpecDefrag == Init /\ [][NextDefrag]_vars

\* The caller goes on calling begin_pass while the context is open.
SpecDefragFair == SpecDefrag /\ WF_vars(begin_pass)

\* The user of a VirtualBlock.
NextVirtual ==
    \/ VirtualBlockNew
    \/ VirtualAllocate
    \/ VirtualFree
    \/ VirtualBlock_clear
    \/ VirtualGetAllocationInfo
    \/ VirtualSetAllocationUserData
    \/ VirtualBlock_drop

SpecVirtual == Init /\ [][NextVirtual]_vars

\* Custom pools of every description.  The caller allocates from the
\* allocator and from pools of the default algorithm.
CreateBufferInDefaultAlgorithm ==
    \E self \in {TheAllocator} \cup {ThePool(p) : p \in PoolIds},
       size \in BufSizes,
       create_info \in AllocInfos :
        /\ self.kind = "AllocatorPool" => ~pools[self.pool].linear
        /\ create_buffer(self, size, create_info, "ok")

NextPool ==
    \/ CreatePoolOfAny
    \/ DropPool
    \/ CreateBufferInDefaultAlgorithm
    \/ DestroyOwned

SpecPool == Init /\ [][NextPool]_vars

\* Allocations made in batches, with custom pools of every description.
NextPages ==
    \/ CreatePoolOfAny
    \/ AllocateMemoryPages
    \/ FreeMemory

SpecPages == Init /\ [][NextPages]_vars

\* Buffers on a device that may refuse to create or to bind a buffer.
NextDevice ==
    \/ CreatePool
    \/ CreateBufferOnAnyDevice
    \/ DestroyBuffer

SpecDevice == Init /\ [][NextDevice]_vars

\* Buffers destroyed with and without null handles, once and again.
NextDestroy ==
    \/ CreateBuffer
    \/ DestroyBufferOrNull

SpecDestroy == Init /\ [][NextDestroy]_vars

\* Memory types looked up, on the allocator and on custom pools.
NextFind ==
    \/ CreatePool
    \/ FindMemoryTypeIndex

SpecFind == Init /\ [][NextFind]_vars

\* Corruption checks on the allocator and on custom pools.
NextCorruption ==
    \/ CreatePoolOfAny
    \/ DropPool
    \/ CheckCorruption
    \/ CheckPoolCorruption

SpecCorruption == Init /\ [][NextCorruption]_vars

\* Threads calling into the allocator at the same time.
NextThreads ==
    \/ ThreadCall
    \/ ThreadReturn

SpecThreads == Init /\ [][NextThreads]_vars

\* Defragmentation with a native begin-pass of any status.
NextDefragStatus ==
    \/ CreateHostBuffer
    \/ DestroyOwned
    \/ begin_defragmentation
    \/ BeginPassOnAnyStatus
    \/ end
    \/ drop_context

SpecDefragStatus == Init /\ [][NextDefragStatus]_vars

\* destroy_buffer is the Allocator's: the caller holds an Arc.
DestroyThroughArc == arc = "held" /\ DestroyOwned

\* The allocator shared, through its Arc, with the pools made from it.
NextOutlive ==
    \/ CreatePoolThroughArc
    \/ CreateBufferThroughPool
    \/ DestroyThroughArc
    \/ DropPoolAndArc
    \/ destroy_unique
    \/ drop_arc

SpecOutlive == Init /\ [][NextOutlive]_vars

\* A virtual block whose handle may be taken out of the wrapper and put
\* back.
NextVirtualRaw ==
    \/ VirtualBlockNew
    \/ VirtualAllocate
    \/ VirtualFree
    \/ VirtualBlock_clear
    \/ VirtualGetAllocationInfo
    \/ VirtualSetAllocationUserData
    \/ VirtualBlock_drop
    \/ VirtualBlock_into_raw
    \/ VirtualBlock_from_raw

SpecVirtualRaw == Init /\ [][NextVirtualRaw]_vars

(* ------------------------------ properties ----------------------------- *)

\* The allocator is there and no call has left its contract: what the
\* claims about live allocations speak of.
Valid == Defined /\ internal = "valid"

\* The size the device asks for a buffer of the size the caller asked for.
SizeOf(h) == vkGetBufferMemoryRequirements(made[h].size).size

RECURSIVE SumOf(_)
SumOf(S) ==
    IF S = {} THEN 0
    ELSE LET h == CHOOSE x \in S : TRUE IN SizeOf(h) + SumOf(S \ {h})

\* C1: the statistics calculate_stats returns count exactly the
\* allocations the caller created and has not destroyed, their bytes are
\* the sum of these allocations' sizes, and the block count is at least 1
\* whenever one of them is live (an emptied block may remain when none is).
StatsTrackLiveAllocations ==
    (last.op = "calculate_stats" /\ last.result = "SUCCESS") =>
        /\ last.stats.allocationCount = Cardinality(owned)
        /\ last.stats.allocationBytes = SumOf(owned)
        /\ (owned # {} => last.stats.blockCount >= 1)

\* Statistics taken with one allocation live and another destroyed.
StatsAfterCreateAndDestroy ==
    /\ last.op = "calculate_stats"
    /\ Cardinality(owned) = 1
    /\ \E h \in Handles : allocs[h].st = "freed"
    /\ last.stats.allocationCount = 1
    /\ last.stats.allocationBytes > 0

\* C2: two distinct live allocations never have the same (device memory,
\* offset) pair, and a live allocation's size is at least the size that
\* was asked for it.
UniquePlacement ==
    Valid =>
    /\ \A h1 \in owned, h2 \in owned :
          (h1 # h2 /\ allocs[h1].st = "live" /\ allocs[h2].st = "live") =>
              <<vmaGetAllocationInfo(allocs, blocks, h1).deviceMemory,
                vmaGetAllocationInfo(allocs, blocks, h1).offset>>
              # <<vmaGetAllocationInfo(allocs, blocks, h2).deviceMemory,
                  vmaGetAllocationInfo(allocs, blocks, h2).offset>>
    /\ \A h \in owned :
          /\ allocs[h].st = "live"
          /\ vmaGetAllocationInfo(allocs, blocks, h).size >= made[h].size

\* Two live allocations in one device memory, one larger than asked for.
TwoInOneMemory ==
    \E h1 \in owned, h2 \in owned :
        /\ h1 # h2
        /\ allocs[h1].mem = allocs[h2].mem
        /\ allocs[h1].offset # allocs[h2].offset
        /\ allocs[h1].size > made[h1].size

\* C3: the native allocator is destroyed at most once, by the first
\* destroy() or drop, which sets the handle to null; a destroy() or drop
\* after it changes nothing and does not fault.
DestroyIdempotent ==
    [][ /\ destroyCalls' <= 1
        /\ (internal' = "null" <=> destroyCalls' = 1)
        /\ (dropped' => destroyCalls' = 1)
        /\ (internal = "null" /\ last'.op \in {"destroy", "drop"}) =>
               /\ destroyCalls' = destroyCalls
               /\ faulted' = faulted
               /\ internal' = "null"
               /\ <<allocs, blocks, pools>>' = <<allocs, blocks, pools>>
      ]_vars

\* The drop of an allocator destroy() was called on before.
DropAfterDestroy ==
    /\ last.op = "drop"
    /\ last.nullHandle
    /\ dropped
    /\ destroyCalls = 1
    /\ faulted = "no"

\* The calls of C4: every operation but destroy and drop.
Operations ==
    {"create_buffer", "destroy_buffer", "map_memory", "unmap_memory",
     "get_allocation_info", "calculate_stats", "create_pool"}

\* C4: an operation called after destroy() returns the not-initialized
\* error and does not reach the native library with the null handle.
NotInitializedAfterDestroy ==
    (last.op \in Operations /\ last.nullHandle) =>
        /\ last.result = "NotInitialized"
        /\ faulted = "no"

\* C5: unmap_memory on a live allocation with no map_memory outstanding
\* fails with PreviouslyUnmapped and leaves the mapping state as it was.
StrayUnmapFails ==
    (/\ last.op = "unmap_memory"
     /\ ~last.nullHandle
     /\ allocs[last.h].st = "live"
     /\ last.mapsBefore = 0) =>
        /\ last.result = "PreviouslyUnmapped"
        /\ faulted = "no"

\* C6: map_memory and unmap_memory on a live allocation balance: the
\* native map count is the number of map_memory calls outstanding; while
\* one is outstanding the allocation is mapped and every map_memory has
\* returned the same non-null pointer; when none is, the allocation is
\* not mapped, and its mapped pointer is null unless it was created with
\* MAPPED.
MapUnmapBalanced ==
    \A h \in owned :
        (Valid /\ allocs[h].st = "live") =>
            /\ allocs[h].mapCount = maps[h]
            /\ maps[h] > 0 =>
                  /\ Cardinality(ptrs[h]) = 1
                  /\ NULL \notin ptrs[h]
                  /\ MappedData(allocs, blocks, h) \in ptrs[h]
                  /\ blocks[allocs[h].mem].mapCount > 0
            /\ maps[h] = 0 =>
                  /\ ptrs[h] = {}
                  /\ ("MAPPED" \notin made[h].flags =>
                         MappedData(allocs, blocks, h) = NULL)

\* Two map_memory calls and one unmap_memory: still mapped.
StillMappedAfterOneUnmap ==
    /\ last.op = "unmap_memory"
    /\ last.result = "unit"
    /\ last.mapsBefore = 2
    /\ maps[last.h] = 1
    /\ MappedData(allocs, blocks, last.h) \in ptrs[last.h]

\* C7: the allocation information of a buffer created with MAPPED in
\* HOST_VISIBLE memory, by the allocator or by a custom pool, has a
\* non-null mapped pointer; that of a buffer created without MAPPED and
\* not mapped has a null one.
MappedPointerFollowsFlag ==
    (last.op = "get_allocation_info" /\ last.result = "SUCCESS") =>
        /\ ("MAPPED" \in made[last.h].flags
               /\ "HOST_VISIBLE" \in MemTypeFlags(last.info.memoryType)) =>
              last.info.pMappedData # NULL
        /\ ("MAPPED" \notin made[last.h].flags /\ maps[last.h] = 0) =>
              last.info.pMappedData = NULL

\* The information of a MAPPED buffer of a custom host-visible pool.
MappedInCustomPool ==
    /\ last.op = "get_allocation_info"
    /\ "MAPPED" \in made[last.h].flags
    /\ allocs[last.h].st = "live"
    /\ blocks[allocs[last.h].mem].pool # NULL
    /\ last.info.pMappedData # NULL

BeginPassReportsMore ==
    last.op = "begin_pass" =>
        /\ dctx.ret \in {"true", "false"}
        /\ dctx.ret = "false" <=>
              (dctx.beginStatus = "SUCCESS" \/ dctx.endStatus = "SUCCESS")
        /\ dctx.ret = "true" <=>
              (dctx.beginStatus = "INCOMPLETE"
                  /\ dctx.endStatus = "INCOMPLETE")
        /\ CandidateMoves(allocs, blocks) # {} => dctx.ret = "true"

\* begin_pass made moves and the native end-pass reported them the last.
LastPassReturnsFalse ==
    /\ last.op = "begin_pass"
    /\ dctx.beginStatus = "INCOMPLETE"
    /\ dctx.endStatus = "SUCCESS"
    /\ dctx.ret = "false"
    /\ dctx.allocationsMoved > 0

\* C10: a defragmentation whose caller goes on calling begin_pass comes
\* to a begin_pass that returns false (or is ended before); end() then
\* returns the native statistics, and the number of live allocations is
\* what it was when the defragmentation began.
DefragTerminates ==
    /\ (dctx.ctx = "open") ~> (dctx.ctx # "open" \/ dctx.ret = "false")
    /\ [](dctx.ctx = "open" =>
             Cardinality(Live(allocs)) = dctx.liveAtBegin)
    /\ [](last.op = "end" =>
             /\ Cardinality(Live(allocs)) = dctx.liveAtBegin
             /\ dctx.stats = [bytesMoved |-> dctx.bytesMoved,
                              allocationsMoved |-> dctx.allocationsMoved])

\* end() after begin_pass returned false, with allocations moved.
EndAfterLastPass ==
    /\ last.op = "end"
    /\ dctx.ret = "false"
    /\ dctx.passes >= 1
    /\ dctx.stats.allocationsMoved >= 1
    /\ Cardinality(Live(allocs)) = dctx.liveAtBegin
    /\ dctx.liveAtBegin >= 1

\* C11: VirtualBlock::allocate fails with ERROR_OUT_OF_DEVICE_MEMORY
\* exactly when the block has no free range of the requested size and
\* alignment, and succeeds otherwise (as stated: for every block).
VirtualAllocateFailsIffNoRange ==
    vlast.op = "allocate" =>
        /\ ~vlast.fits => vlast.result = "ERROR_OUT_OF_DEVICE_MEMORY"
        /\ vlast.fits => (vlast.result = "SUCCESS" /\ vlast.h # NULL)

\* C11, amended: VirtualBlock::allocate fails with
\* ERROR_OUT_OF_DEVICE_MEMORY whenever the block has no free range of the
\* requested size and alignment; in a block of the default algorithm it
\* succeeds otherwise, with a handle and the offset of a free range; a
\* block of the linear algorithm may fail although a range is free, never
\* with another error.
VirtualAllocateFailsWithoutRange ==
    vlast.op = "allocate" =>
        /\ vlast.result \in {"SUCCESS", "ERROR_OUT_OF_DEVICE_MEMORY"}
        /\ ~vlast.fits => vlast.result = "ERROR_OUT_OF_DEVICE_MEMORY"
        /\ (vlast.fits /\ ~vblock.linear) => vlast.result = "SUCCESS"
        /\ vlast.result = "SUCCESS" =>
              /\ vlast.h # NULL
              /\ vallocs[vlast.h].st = "live"
              /\ vallocs[vlast.h].offset = vlast.offset

\* A request larger than the block, refused by a block of the default
\* algorithm that holds nothing.
VirtualOutOfSpace ==
    /\ vlast.op = "allocate"
    /\ vlast.result = "ERROR_OUT_OF_DEVICE_MEMORY"
    /\ ~vblock.linear
    /\ vowned = {}
    /\ ~vlast.fits

\* C12: two live virtual allocations occupy disjoint ranges; every live
\* virtual allocation lies inside the block and starts at a multiple of
\* the alignment asked for it (0 taken as 1).
VirtualRangesDisjoint ==
    /\ \A h1 \in vowned, h2 \in vowned :
          h1 # h2 =>
              /\ (vmade[h1].offset .. (vmade[h1].offset + vmade[h1].size - 1))
                    \cap (vmade[h2].offset ..
                             (vmade[h2].offset + vmade[h2].size - 1)) = {}
              /\ vmade[h1].offset # vmade[h2].offset
    /\ \A h \in vowned :
          /\ vmade[h].size > 0
          /\ vmade[h].offset >= 0
          /\ vmade[h].offset + vmade[h].size <= vblock.size
          /\ vmade[h].offset % VAlign(vmade[h].alignment) = 0

\* Two live virtual allocations, the second aligned past a free unit.
VirtualAlignedPair ==
    \E h1 \in vowned, h2 \in vowned :
        /\ h1 # h2
        /\ vmade[h1].size = 1
        /\ vmade[h1].offset = 0
        /\ vmade[h2].alignment = 2
        /\ vmade[h2].offset = 2

\* C13: once the caller has released every virtual allocation, by free
\* or by clear, the block holds nothing and places every request as a
\* block just created with its size and algorithm does.
VirtualReleaseRestores ==
    (vblock.state = "valid" /\ VDefined /\ vowned = {}) =>
        /\ VLive(vallocs) = {}
        /\ \A r \in VirtualAllocationCreateInfos :
              VPlaces(vblock, vallocs, r.size, r.alignment)
                 = VPlaces(vblock, [h \in VHandles |-> NoVirtualAlloc],
                           r.size, r.alignment)

\* Two allocations, freed one by one: the block is empty again.
VirtualFreedOneByOne ==
    /\ vlast.op = "free"
    /\ vlast.h # NULL
    /\ vblock.state = "valid"
    /\ vowned = {}
    /\ Cardinality({h \in VHandles : vallocs[h].st = "freed"}) = 2

\* C14: VirtualBlock::free of a null handle or of a handle already freed
\* does nothing: it returns, and no call leaves the native contract.
VirtualFreeTwiceIsNoOp ==
    vlast.op = "free" => (vlast.result = "unit" /\ vfaulted = "no")

\* C15: for every live virtual allocation the native record read by
\* get_allocation_info holds the size asked for, the offset allocate
\* returned and the user data stored last, whatever was done to other
\* allocations; get_allocation_info returns just these.
VirtualInfoIsStable ==
    /\ (vblock.state = "valid" /\ VDefined) =>
          \A h \in vowned :
              /\ vallocs[h].st = "live"
              /\ vmaGetVirtualAllocationInfo(vallocs, h) =
                    [offset    |-> vmade[h].offset,
                     size      |-> vmade[h].size,
                     pUserData |-> vmade[h].user_data]
    /\ (vlast.op = "get_allocation_info" /\ vlast.result = "SUCCESS") =>
          vlast.info = [offset    |-> vmade[vlast.h].offset,
                        size      |-> vmade[vlast.h].size,
                        user_data |-> vmade[vlast.h].user_data]

\* The information of one of two live virtual allocations that differ in
\* offset, size and user data.
VirtualInfoOfSecond ==
    /\ vlast.op = "get_allocation_info"
    /\ vlast.info.offset > 0
    /\ vlast.info.size = 2
    /\ vlast.info.user_data = 1
    /\ \E h \in vowned \ {vlast.h} :
          vmade[h].user_data = 0 /\ vmade[h].size = 1

PagesAllOrNothingWithStatistics ==
    [][(last'.op = "allocate_memory_pages" /\ last'.result # "undefined")
       => IF last'.result = "SUCCESS"
          THEN /\ Cardinality(owned' \ owned) = last'.count
               /\ (owned' \ owned) \cap Live(allocs) = {}
               /\ owned' \ owned \subseteq Live(allocs')
               /\ Live(allocs') = Live(allocs) \cup (owned' \ owned)
          ELSE /\ allocs' = allocs
               /\ owned' = owned
               /\ vmaCalculateStats(allocs', blocks')
                      = vmaCalculateStats(allocs, blocks)]_vars

(* C18, amended: a successful allocate_memory_pages call makes exactly     *)
(* allocation_count new live allocations; a failed one leaves no           *)
(* allocation of the batch, and the number and bytes of allocations as     *)
(* they were before it.  Only blocks that hold no allocation come or go:   *)
(* one allocated for the batch may remain, empty.                          *)
PagesAllOrNothing ==
    [][(last'.op = "allocate_memory_pages" /\ last'.result # "undefined")
       => IF last'.result = "SUCCESS"
          THEN /\ Cardinality(owned' \ owned) = last'.count
               /\ (owned' \ owned) \cap Live(allocs) = {}
               /\ owned' \ owned \subseteq Live(allocs')
               /\ Live(allocs') = Live(allocs) \cup (owned' \ owned)
          ELSE /\ allocs' = allocs
               /\ owned' = owned
               /\ vmaCalculateStats(allocs', blocks').allocationCount
                      = vmaCalculateStats(allocs, blocks).allocationCount
               /\ vmaCalculateStats(allocs', blocks').allocationBytes
                      = vmaCalculateStats(allocs, blocks).allocationBytes
               /\ \A m \in MemIds :
                      blocks'[m] # blocks[m]
                          => /\ LiveIn(allocs, m) = {}
                             /\ LiveIn(allocs', m) = {}
                             /\ blocks'[m] # NoBlock => ~blocks'[m].dedicated]_vars

\* A batch of two failed after its first allocation had been made: no
\* allocation was ever handed out and no pool preallocates, yet the block
\* the first allocation was put in is there, empty.
PagesFailedHalfWay ==
    /\ Valid
    /\ last.op = "allocate_memory_pages"
    /\ last.result = "ERROR_OUT_OF_DEVICE_MEMORY"
    /\ last.count = 2
    /\ \A h \in Handles : allocs[h].st = "unused"
    /\ \A p \in PoolIds : pools[p].minBlockCount = 0
    /\ \E m \in MemIds : blocks[m].exists

(* C19, as stated: a create_buffer call that fails returns no handle and   *)
(* leaves the allocator as it was before the call: no buffer, no           *)
(* allocation, no device memory more than before.                          *)
FailedCreateLeavesStateEqual ==
    [][(last'.op = "create_buffer"
            /\ last'.result \notin {"SUCCESS", "undefined"})
       => /\ last'.h = NULL
          /\ buffers' = buffers
          /\ allocs' = allocs
          /\ owned' = owned
          /\ pools' = pools
          /\ blocks' = blocks]_vars

(* C19, amended: a create_buffer call that fails returns no handle and     *)
(* leaves no buffer and no allocation behind; the allocations, and the     *)
(* blocks there were, are as before the call.  A block allocated for the   *)
(* call may remain, empty.                                                 *)
FailedCreateLeavesNothing ==
    [][(last'.op = "create_buffer"
            /\ last'.result \notin {"SUCCESS", "undefined"})
       => /\ last'.h = NULL
          /\ buffers' = buffers
          /\ allocs' = allocs
          /\ owned' = owned
          /\ pools' = pools
          /\ \A m \in MemIds :
                 blocks'[m] # blocks[m]
                     => /\ ~blocks[m].exists /\ blocks'[m].exists
                        /\ LiveIn(allocs', m) = {}]_vars

\* The device refused to bind the first buffer ever asked for: nothing was
\* handed out, and the block allocated for it is there.
FailedBindLeavesBlock ==
    /\ Valid
    /\ last.op = "create_buffer"
    /\ last.result = "ERROR_OUT_OF_HOST_MEMORY"
    /\ last.h = NULL
    /\ buffers = {}
    /\ \A h \in Handles : allocs[h].st = "unused"
    /\ \E m \in MemIds : blocks[m].exists

(* C20: destroy_buffer is a no-op, not a fault, when the buffer is null    *)
(* and/or the allocation is null or was freed before: it returns and the   *)
(* allocator is intact.                                                    *)
DestroyBufferTwiceIsNoOp ==
    (/\ last.op = "destroy_buffer"
     /\ ~last.nullHandle
     /\ last.mapsBefore = 0)
    => /\ last.result = "unit"
       /\ Defined

\* The memory types bit-admitted by a find_memory_type_index call that
\* carry every flag of its required_flags.
FindQualifying(f) ==
    {t \in MemTypes : /\ HasBit(f.memory_type_bits, 2 ^ t)
                      /\ f.required_flags \subseteq MemTypeFlags(t)}

\* The types of FindQualifying that the request's own memory_type_bits
\* admit as well and that carry the flags the usage guarantees.
FindQualifyingForUsage(f) ==
    {t \in FindQualifying(f) :
        /\ f.info_memory_type_bits = 0 \/ HasBit(f.info_memory_type_bits, 2 ^ t)
        /\ UsageRequired(f.usage) \subseteq MemTypeFlags(t)}

(* C21, as stated: find_memory_type_index returns a type admitted by       *)
(* memory_type_bits that has every flag of required_flags, such that no    *)
(* other such type has more of the flags of preferred_flags; it fails      *)
(* with ERROR_FEATURE_NOT_PRESENT exactly when there is no such type.      *)
FindReturnsBestOfRequest ==
    (last.op = "find_memory_type_index" /\ last.result # "undefined")
    => LET f == last.find
           matched(t) == Cardinality(f.preferred_flags \cap MemTypeFlags(t))
       IN  IF FindQualifying(f) = {}
           THEN last.result = "ERROR_FEATURE_NOT_PRESENT"
           ELSE /\ last.result = "SUCCESS"
                /\ f.index \in FindQualifying(f)
                /\ \A u \in FindQualifying(f) :
                       matched(u) <= matched(f.index)

(* C21, amended: the type returned is admitted by memory_type_bits and by  *)
(* the request's own memory_type_bits (0: all), has every flag of          *)
(* required_flags and every flag the usage guarantees, and no other such   *)
(* type has more of the preferred flags, those the usage prefers           *)
(* included; the call fails with ERROR_FEATURE_NOT_PRESENT exactly when    *)
(* there is no such type.                                                  *)
FindReturnsBestForUsage ==
    (last.op = "find_memory_type_index" /\ last.result # "undefined")
    => LET f == last.find
           preferred == f.preferred_flags \cup UsagePreferred(f.usage)
           matched(t) == Cardinality(preferred \cap MemTypeFlags(t))
       IN  IF FindQualifyingForUsage(f) = {}
           THEN last.result = "ERROR_FEATURE_NOT_PRESENT"
           ELSE /\ last.result = "SUCCESS"
                /\ f.index \in FindQualifyingForUsage(f)
                /\ \A u \in FindQualifyingForUsage(f) :
                       matched(u) <= matched(f.index)

\* Two types qualify and the one with more of the preferred flags, not
\* the first one, was returned.
FindPrefersHostVisible ==
    /\ last.op = "find_memory_type_index"
    /\ last.result = "SUCCESS"
    /\ Cardinality(FindQualifyingForUsage(last.find)) = 2
    /\ last.find.preferred_flags = {"HOST_VISIBLE", "HOST_COHERENT"}
    /\ last.find.index = 1

\* The last call was a corruption check that came back.
CorruptionChecked ==
    /\ last.op \in {"check_corruption", "check_pool_corruption"}
    /\ last.result # "undefined"

(* C22, as stated: check_corruption returns success when corruption        *)
(* detection is disabled at build time; a validation-failed error only     *)
(* when corruption was detected.                                           *)
CheckCorruptionSucceedsWhenDisabled ==
    CorruptionChecked
    => /\ VMA_DEBUG_DETECT_CORRUPTION = 0 => last.result = "SUCCESS"
       /\ last.result = "ERROR_VALIDATION_FAILED_EXT" => last.corrupt

(* C22, amended: check_corruption returns ERROR_FEATURE_NOT_PRESENT, not   *)
(* success, when corruption detection is disabled at build time; a         *)
(* validation-failed error only when corruption was detected; success      *)
(* only when detection is compiled in and nothing was found.               *)
CheckCorruptionNotPresentWhenDisabled ==
    CorruptionChecked
    => /\ VMA_DEBUG_DETECT_CORRUPTION = 0
            => last.result = "ERROR_FEATURE_NOT_PRESENT"
       /\ last.result = "ERROR_VALIDATION_FAILED_EXT" => last.corrupt
       /\ last.result = "SUCCESS"
            => VMA_DEBUG_DETECT_CORRUPTION # 0 /\ ~last.corrupt

\* A check of a pool in host-visible, host-coherent memory, its margins
\* written over, came back with "feature not present".
CorruptPoolNotChecked ==
    /\ last.op = "check_pool_corruption"
    /\ last.corrupt
    /\ pools[last.h].exists
    /\ {"HOST_VISIBLE", "HOST_COHERENT"}
           \subseteq MemTypeFlags(pools[last.h].memType)
    /\ last.result = "ERROR_FEATURE_NOT_PRESENT"

\* The memory object the call of thread t is about.
MemOf(t) == IF threads[t].h = NULL THEN NULL
            ELSE threads[t].seen.allocs[threads[t].h].mem

RECURSIVE MapCountIn(_, _)
\* The references the allocations S hold on mappings.
MapCountIn(A, S) ==
    IF S = {} THEN 0
    ELSE LET h == CHOOSE x \in S : TRUE
         IN  A[h].mapCount + MapCountIn(A, S \ {h})

(* C23: without EXTERNALLY_SYNCHRONIZED the calls of several threads are   *)
(* serialized: a call sees the records as the call before it left them     *)
(* (so the outcome is that of the calls made one after another in the      *)
(* order they return), no update is lost, live allocations never overlap,  *)
(* and no two threads are inside a map or a bind on the same device        *)
(* memory at once.                                                         *)
ThreadsSerialized ==
    Valid =>
        /\ \A t \in ThreadIds :
              threads[t].at = "inside"
              => threads[t].seen = [allocs |-> allocs, blocks |-> blocks]
        /\ \A t \in ThreadIds : \A h \in threads[t].held :
              /\ allocs[h].st = "live"
              /\ blocks[allocs[h].mem].exists
              /\ allocs[h].mapCount = maps[h]
              /\ \A u \in ThreadIds \ {t} : h \notin threads[u].held
        /\ \A m \in MemIds :
              blocks[m].exists
              => blocks[m].mapCount = MapCountIn(allocs, LiveIn(allocs, m))
        /\ \A h1, h2 \in Live(allocs) :
              h1 # h2 /\ allocs[h1].mem = allocs[h2].mem
              => Range(allocs[h1]) \cap Range(allocs[h2]) = {}
        /\ \A t, u \in ThreadIds :
              /\ t # u
              /\ threads[t].at = "inside" /\ threads[u].at = "inside"
              /\ {threads[t].op, threads[u].op}
                     \subseteq {"map_memory", "unmap_memory",
                                "bind_buffer_memory"}
              => MemOf(t) # MemOf(u)

\* One thread is inside map_memory on the memory object in which another
\* thread holds a mapped allocation.
MapsMemoryAnotherThreadMapped ==
    \E t, u \in ThreadIds :
        /\ t # u
        /\ threads[t].at = "inside"
        /\ threads[t].op = "map_memory"
        /\ \E h \in threads[u].held :
              /\ maps[h] > 0
              /\ allocs[h].mem = MemOf(t)

(* C24: a custom pool never holds more blocks than its max_block_count    *)
(* when that is nonzero, and never fewer than its min_block_count, also    *)
(* when all its allocations are freed.                                     *)
PoolBlockCountWithinBounds ==
    Valid =>
        \A p \in PoolIds :
            pools[p].exists
            => /\ pools[p].maxBlockCount # 0
                    => Cardinality(BlocksOf(blocks, p)) <= pools[p].maxBlockCount
               /\ Cardinality(BlocksOf(blocks, p)) >= pools[p].minBlockCount

\* The last allocation has just been freed, and a pool that is to keep
\* two blocks holds two empty ones.
EmptyPoolKeepsItsBlocks ==
    /\ Valid
    /\ last.op = "destroy_buffer"
    /\ Live(allocs) = {}
    /\ \E p \in PoolIds :
          /\ pools[p].exists
          /\ pools[p].minBlockCount = MaxBlockCount
          /\ made[last.h].via = p
          /\ Cardinality(BlocksOf(blocks, p)) = MaxBlockCount

(* C25: the mapping reference count is kept per device memory, not per    *)
(* allocation: the count of a memory is the sum over the allocations in    *)
(* it, the device maps the memory only when the count leaves 0 and unmaps  *)
(* it only when the count returns to 0, so the device never sees a map of  *)
(* a mapped memory or an unmap of an unmapped one.                         *)
DeviceMapsOncePerMemory ==
    Valid =>
        \A m \in MemIds :
            blocks[m].exists
            => /\ blocks[m].mapCount
                     = MapCountIn(allocs, LiveIn(allocs, m))
                       + Cardinality({h \in LiveIn(allocs, m) :
                                         allocs[h].persistent})
               /\ blocks[m].deviceMaps \in {0, 1}
               /\ blocks[m].deviceMaps = 1 <=> blocks[m].mapCount > 0

\* Two allocations in one device memory are both mapped, and the device
\* has mapped the memory once.
TwoMappedInOneMemory ==
    /\ Valid
    /\ last.op = "map_memory"
    /\ last.result = "SUCCESS"
    /\ \E h \in Live(allocs) \ {last.h} :
          /\ allocs[h].mem = allocs[last.h].mem
          /\ maps[h] > 0
          /\ maps[last.h] > 0
          /\ blocks[allocs[h].mem].mapCount >= 2
          /\ blocks[allocs[h].mem].deviceMaps = 1

(* C26: for a context a successful begin_defragmentation returned, the    *)
(* native vmaEndDefragmentation is called exactly once: by end(), which    *)
(* returns the statistics and leaves no Drop to run, or by Drop when       *)
(* end() was not called; never twice, and never for a                      *)
(* begin_defragmentation that failed.                                      *)
EndDefragmentationExactlyOnce ==
    /\ dctx.endCalls = IF dctx.ctx \in {"forgotten", "dropped"} THEN 1 ELSE 0
    /\ last.op = "end" =>
          /\ dctx.ctx = "forgotten"
          /\ dctx.stats = [bytesMoved |-> dctx.bytesMoved,
                           allocationsMoved |-> dctx.allocationsMoved]
    /\ last.op = "drop_context" => dctx.ctx = "dropped"
    /\ last.op = "begin_defragmentation" =>
          IF last.result = "SUCCESS"
          THEN dctx.ctx = "open" /\ dctx.native = "Begun"
          ELSE dctx = NoContext

\* A context that went out of scope after a pass, end() never called.
DroppedWithoutEnd ==
    /\ last.op = "drop_context"
    /\ dctx.ctx = "dropped"
    /\ dctx.passes >= 1
    /\ dctx.endCalls = 1

(* C27, as stated: begin_pass runs the mover, and afterwards the native   *)
(* end-pass, if and only if the native begin-pass reported INCOMPLETE;     *)
(* for every other status, native error codes included, neither is run.    *)
MoverRunsIffIncomplete ==
    last.op = "begin_pass" =>
        /\ dctx.mover <=> dctx.beginStatus = "INCOMPLETE"
        /\ dctx.endPass <=> dctx.beginStatus = "INCOMPLETE"

VirtualBlockDestroyedOnce ==
    /\ [](vblock.destroyCalls = IF vblock.state = "dropped" THEN 1 ELSE 0)
    /\ [](vlast.op = "into_raw"
             => vblock.state = "raw" /\ vblock.destroyCalls = 0)
    /\ [][vblock'.destroyCalls # vblock.destroyCalls
             => vlast'.op = "drop" /\ vblock'.state = "dropped"]_vars

\* A block holding an allocation and a freed one has been taken out by
\* into_raw: no VirtualBlock is left, and the native block is intact.
VirtualBlockTakenRaw ==
    /\ vlast.op = "into_raw"
    /\ vblock.state = "raw"
    /\ vblock.destroyCalls = 0
    /\ vfaulted = "no"
    /\ \E h \in VHandles : vallocs[h].st = "live"
    /\ \E h \in VHandles : vallocs[h].st = "freed"

====
